---- MODULE Spec2Model ----
(***************************************************************************)
(* Urban traffic scenario M1 (src/scenarios/scenario_m1.py): the road      *)
(* network and its route generator, the traffic signal controller, and the *)
(* tick loop of the traffic simulation.                                    *)
(*                                                                         *)
(* Positions are pairs <<x, y>>.  Times are whole seconds (the simulation  *)
(* steps by time_step = 1.0 and the green times 15.0 and 90.0 are whole).  *)
(***************************************************************************)
EXTENDS Integers, Naturals, Sequences, FiniteSets, TLC

VARIABLES
    \* ---- TrafficNetwork.get_alternative_routes(start, end, num_routes)
    grid_size,      \* TrafficNetwork.grid_size
    start,          \* argument start
    end,            \* argument end
    num_routes,     \* argument num_routes
    main_route,     \* local main_route (None before it is computed)
    routes,         \* local routes, the list that is returned
    alt_route,      \* local alt_route of the walk in progress
    current,        \* local current of the walk in progress
    walks_left,     \* iterations of "for _ in range(num_routes - 1)" still to run
    stuck,          \* TRUE iff the walk in progress left its while loop by "break"
    rpc,            \* position in get_alternative_routes
    \* ---- one TrafficSignal and the last call made on it
    signal,         \* the TrafficSignal object
    sig_call,       \* the last call: its name, arguments and return value
    \* ---- TrafficSimulation
    use_helics,             \* TrafficSimulation.use_helics
    federate,               \* TrafficSimulation.federate
    adaptive_signals,       \* TrafficSimulation.adaptive_signals
    sim_duration,           \* TrafficSimulation.sim_duration
    vehicles,               \* TrafficSimulation.vehicles, by place in the list
    signals,                \* TrafficNetwork.signals, by position
    completed_vehicles,     \* TrafficSimulation.completed_vehicles (vehicle ids)
    queue_lengths,          \* TrafficSimulation.queue_lengths, by position
    total_emissions,        \* TrafficSimulation.total_emissions
    average_travel_times,   \* TrafficSimulation.average_travel_times
    current_time,           \* local current_time of run_simulation
    step,                   \* local step of run_simulation
    epc,                    \* position in the loop of run_simulation
    \* ---- SmartGridFederate (scenario_e1), its federate and its clock
    grid_use_helics,        \* SmartGridFederate.use_helics
    grid_federate,          \* SmartGridFederate.federate
    grid_current_time,      \* local current_time of run_simulation
    grid_step,              \* local step of run_simulation
    grid_records,           \* entries appended to each metric list so far
    gpc,                    \* position in run_scenario_e1
    \* ---- EVChargingFederate (scenario_e2) and SmartChargingController
    ev_strategy,            \* EVChargingFederate.strategy
    ev_vehicles,            \* EVChargingFederate.vehicles
    ev_stations,            \* EVChargingFederate.charging_stations
    ev_current_time,        \* local current_time of run_simulation
    ev_grid_load_kw,        \* argument grid_load_kw of optimize_charging
    ev_grid_capacity_kw,    \* argument grid_capacity_kw of optimize_charging
    ev_allocation,          \* local power_allocation of the tick
    ev_v2g_energy,          \* EVChargingFederate.v2g_energy_kwh
    evpc                    \* position in run_simulation

route_vars == <<grid_size, start, end, num_routes, main_route, routes,
                alt_route, current, walks_left, stuck, rpc>>

signal_vars == <<signal, sig_call>>

engine_vars == <<use_helics, federate, adaptive_signals, sim_duration,
                 vehicles, signals,
                 completed_vehicles, queue_lengths, total_emissions,
                 average_travel_times, current_time, step, epc>>

grid_vars == <<grid_use_helics, grid_federate, grid_current_time, grid_step,
               grid_records, gpc>>

ev_vars == <<ev_strategy, ev_vehicles, ev_stations, ev_current_time,
             ev_grid_load_kw, ev_grid_capacity_kw, ev_allocation,
             ev_v2g_energy, evpc>>

vars == <<route_vars, signal_vars, engine_vars, grid_vars, ev_vars>>

(***************************************************************************)
(* Bounds of the model and constants of the program.                       *)
(***************************************************************************)
\* largest grid_size explored (the program's network is 5 x 5)
MaxGrid == 3
\* longest random walk followed, in moves
MaxWalk == 7
\* default of num_routes, the value initialize_vehicles calls with
DefaultNumRoutes == 3
\* largest demand count passed to a signal that is driven on its own
MaxDemand == 2
\* largest dt passed to a signal that is driven on its own
MaxDt == 2
\* TrafficSignal.min_green_time and max_green_time, in seconds
MinGreenTime == 15
MaxGreenTime == 90
\* number of vehicles of a run (the program creates 2500)
NumVehicles == 2
\* sim_duration of a run, in seconds (the program runs 3 * 3600)
SimDuration == 112
\* sim_duration of the run with a single vehicle, in seconds (3600 there)
ScenarioHorizon == 200
\* grid_size of the network of TrafficSimulation
NetworkGridSize == 5
\* TrafficSimulation.time_step, in seconds
TimeStep == 1
\* the hop length of Vehicle.update_position, in metres
HopDistance == 500
\* SmartGridFederate.time_step and sim_duration, in seconds
GridTimeStep == 900
GridSimDuration == 86400
\* spacing_m of the network of TrafficSimulation, in metres
NetworkSpacing == 1000
\* Vehicle.max_speed_mps (13.9 m/s), in tenths of a metre per second
MaxSpeedTenths == 139
\* Vehicle.fuel_consumption_factor, in hundredths of g CO2 per second
IdleEmission == 231
\* Vehicle.moving_factor, in hundredths of g CO2 per metre
MovingEmission == 15
\* vehicles of the charging run (the program creates 100), those that charge
\* at home (the first 80 there), Level 2 stations (20) and DC fast stations (5)
NumEvs == 3
NumHomeEvs == 2
NumLevel2 == 1
NumDcFast == 1
\* EVChargingFederate.time_step and sim_duration, in seconds
EvTimeStep == 300
EvSimDuration == 86400
\* EVChargingFederate.grid_capacity_kw and base_load_kw, in tenths of a kW
EvGridCapacity == 50000
EvBaseLoad == 20000
\* ChargingStation.max_power_kw of the two charger types, in tenths of a kW
Level2Power == 72
DcFastPower == 500
\* ElectricVehicle.max_charge_rate_kw and max_discharge_rate_kw, in tenths of a kW
MaxChargeRate == 110
MaxDischargeRate == 100
\* TimeOfUseTariff prices, in thousandths of a dollar per kWh
OffPeakPrice == 80
MidPeakPrice == 120
OnPeakPrice == 200

None == <<>>

Abs(n) == IF n < 0 THEN 0 - n ELSE n

Max(a, b) == IF a >= b THEN a ELSE b

Positions(N) == (0 .. N - 1) \X (0 .. N - 1)

\* every element of sequence s, as a set
Elems(s) == {s[i] : i \in 1 .. Len(s)}

Reverse(s) == [i \in 1 .. Len(s) |-> s[Len(s) + 1 - i]]

(***************************************************************************)
(* TrafficNetwork.get_neighbors: the in-grid positions among               *)
(* (x, y+1), (x, y-1), (x+1, y), (x-1, y), in that order.                  *)
(***************************************************************************)
GetNeighbors(N, position) ==
    LET x == position[1]
        y == position[2]
        cand == << <<x, y + 1>>, <<x, y - 1>>, <<x + 1, y>>, <<x - 1, y>> >>
        InGrid(p) == 0 <= p[1] /\ p[1] < N /\ 0 <= p[2] /\ p[2] < N
    IN  SelectSeq(cand, InGrid)

(***************************************************************************)
(* TrafficNetwork.shortest_path: A* over the grid.  The frontier is a heap *)
(* of pairs (priority, position); heappop returns the least pair in        *)
(* Python's tuple order.  No pair is pushed twice (a position is pushed    *)
(* only when its cost strictly drops), so the heap is modelled as a set.   *)
(***************************************************************************)
Heuristic(a, b) == Abs(a[1] - b[1]) + Abs(a[2] - b[2])

\* Python's order on tuples (priority, (x, y))
ItemLess(a, b) ==
    \/ a[1] < b[1]
    \/ a[1] = b[1] /\ a[2][1] < b[2][1]
    \/ a[1] = b[1] /\ a[2][1] = b[2][1] /\ a[2][2] < b[2][2]

\* heappop that returns the greatest pair instead of the least
HeapMax(frontier) ==
    CHOOSE m \in frontier : \A o \in frontier : o = m \/ ItemLess(o, m)

HeapMin(frontier) ==
    CHOOSE m \in frontier : \A o \in frontier : o = m \/ ItemLess(m, o)

\* dict assignment d[k] = v
Put(d, k, v) == [x \in (DOMAIN d) \cup {k} |-> IF x = k THEN v ELSE d[x]]

\* dict.get(k): None when k is no key
Get(d, k) == IF k \in DOMAIN d THEN d[k] ELSE None

\* the body of "for next_pos in self.get_neighbors(current)" for one neighbour
RelaxOne(st, cur, goal, next_pos) ==
    LET new_cost == st.cost_so_far[cur] + 1
    IN  IF next_pos \notin DOMAIN st.cost_so_far \/ new_cost < st.cost_so_far[next_pos]
        THEN [frontier    |-> st.frontier \cup
                                {<<new_cost + Heuristic(next_pos, goal), next_pos>>},
              came_from   |-> Put(st.came_from, next_pos, cur),
              cost_so_far |-> Put(st.cost_so_far, next_pos, new_cost)]
        ELSE st

RECURSIVE Relax(_, _, _, _, _)
Relax(st, cur, goal, nbrs, i) ==
    IF i > Len(nbrs) THEN st
    ELSE Relax(RelaxOne(st, cur, goal, nbrs[i]), cur, goal, nbrs, i + 1)

\* the loop "while frontier"
RECURSIVE AStarLoop(_, _, _)
AStarLoop(N, goal, st) ==
    IF st.frontier = {} THEN st
    ELSE LET item == HeapMin(st.frontier)
             cur  == item[2]
             st1  == [st EXCEPT !.frontier = @ \ {item}]
         IN  IF cur = goal THEN st1
             ELSE AStarLoop(N, goal, Relax(st1, cur, goal, GetNeighbors(N, cur), 1))

\* "while current is not None: path.append(current); current = came_from.get(current)"
RECURSIVE Reconstruct(_, _)
Reconstruct(came_from, cur) ==
    IF cur = None THEN <<>>
    ELSE <<cur>> \o Reconstruct(came_from, Get(came_from, cur))

ShortestPath(N, s, e) ==
    LET st0 == [frontier    |-> {<<0, s>>},
                came_from   |-> [p \in {s} |-> None],
                cost_so_far |-> [p \in {s} |-> 0]]
    IN  Reverse(Reconstruct(AStarLoop(N, e, st0).came_from, e))

(***************************************************************************)
(* The biased random walk of get_alternative_routes.  A neighbour already  *)
(* in alt_route gets weight 0.0; any other gets                            *)
(* 1/(dist_to_goal + 1) + random() * 0.3 > 0.  np.random.choice(p=weights) *)
(* returns an index of positive probability, so the next position is any   *)
(* neighbour of positive weight, and sum(weights) > 0 iff there is one.    *)
(***************************************************************************)
\* the walk without "if n not in alt_route": every neighbour gets a weight
PositiveWeightAlways(n, route) == TRUE

PositiveWeight(n, route) == n \notin Elems(route)

WalkChoices(N, route, cur) ==
    {n \in Elems(GetNeighbors(N, cur)) : PositiveWeight(n, route)}

\* the walk's route inserted at the head of routes instead of appended
FinishWalkAtHead(rs, route, e) ==
    LET full == Append(route, e)
    IN  IF Len(full) > 2 THEN <<full>> \o rs ELSE rs

\* "alt_route.append(end); if len(alt_route) > 2: routes.append(alt_route)"
FinishWalk(rs, route, e) ==
    LET full == Append(route, e)
    IN  IF Len(full) > 2 THEN Append(rs, full) ELSE rs

(***************************************************************************)
(* get_alternative_routes as a state machine.                              *)
(***************************************************************************)
RouteStart ==
    /\ grid_size \in 2 .. MaxGrid
    /\ start \in Positions(grid_size)
    /\ end \in Positions(grid_size)
    /\ num_routes \in (0 - 1) .. DefaultNumRoutes
    /\ main_route = None
    /\ routes = <<>>
    /\ alt_route = <<>>
    /\ current = None
    /\ walks_left = 0
    /\ stuck = FALSE
    /\ rpc = "call"

\* lines 195-199: routes = [shortest_path(start, end)]
MainRoute ==
    /\ rpc = "call"
    /\ main_route' = ShortestPath(grid_size, start, end)
    /\ routes' = <<main_route'>>
    /\ walks_left' = Max(num_routes - 1, 0)
    /\ rpc' = "loop"
    /\ UNCHANGED <<grid_size, start, end, num_routes, alt_route, current, stuck>>
    /\ UNCHANGED <<signal_vars, engine_vars, grid_vars, ev_vars>>

\* line 202-205: one more iteration of the for loop
BeginWalk ==
    /\ rpc = "loop"
    /\ walks_left > 0
    /\ walks_left' = walks_left - 1
    /\ alt_route' = <<>>
    /\ current' = start
    /\ stuck' = FALSE
    /\ rpc' = "walk"
    /\ UNCHANGED <<grid_size, start, end, num_routes, main_route, routes>>
    /\ UNCHANGED <<signal_vars, engine_vars, grid_vars, ev_vars>>

\* lines 206-221: one iteration of "while current != end" that moves
WalkStep ==
    /\ rpc = "walk"
    /\ current # end
    /\ Len(alt_route) < MaxWalk
    /\ \E next_pos \in WalkChoices(grid_size, alt_route, current) :
          /\ alt_route' = Append(alt_route, current)
          /\ current' = next_pos
    /\ UNCHANGED <<grid_size, start, end, num_routes, main_route, routes,
                   walks_left, stuck, rpc>>
    /\ UNCHANGED <<signal_vars, engine_vars, grid_vars, ev_vars>>

\* lines 206, 225-227: the walk reached end
WalkReached ==
    /\ rpc = "walk"
    /\ current = end
    /\ routes' = FinishWalk(routes, alt_route, end)
    /\ alt_route' = Append(alt_route, end)
    /\ rpc' = "loop"
    /\ UNCHANGED <<grid_size, start, end, num_routes, main_route, current,
                   walks_left, stuck>>
    /\ UNCHANGED <<signal_vars, engine_vars, grid_vars, ev_vars>>

\* lines 217, 222-227: sum(weights) == 0, break
WalkStuck ==
    /\ rpc = "walk"
    /\ current # end
    /\ WalkChoices(grid_size, alt_route, current) = {}
    /\ stuck' = TRUE
    /\ routes' = FinishWalk(routes, alt_route, end)
    /\ alt_route' = Append(alt_route, end)
    /\ rpc' = "loop"
    /\ UNCHANGED <<grid_size, start, end, num_routes, main_route, current,
                   walks_left>>
    /\ UNCHANGED <<signal_vars, engine_vars, grid_vars, ev_vars>>

\* line 229: return routes
ReturnRoutes ==
    /\ rpc = "loop"
    /\ walks_left = 0
    /\ rpc' = "done"
    /\ UNCHANGED <<grid_size, start, end, num_routes, main_route, routes,
                   alt_route, current, walks_left, stuck>>
    /\ UNCHANGED <<signal_vars, engine_vars, grid_vars, ev_vars>>

RouteNext ==
    \/ MainRoute
    \/ BeginWalk
    \/ WalkStep
    \/ WalkReached
    \/ WalkStuck
    \/ ReturnRoutes

(***************************************************************************)
(* shortest_path called on its own.  The method takes any pair of tuples:  *)
(* the end ranges over the grid and over the ring of cells around it, the  *)
(* start over the grid.  The call has one outcome, "return path": the      *)
(* method holds no raise statement, and came_from.get does not raise.      *)
(***************************************************************************)
PathEnds(N) == {<<x, y>> : x \in (0 - 1) .. N, y \in (0 - 1) .. N}

PathStart ==
    /\ grid_size \in 2 .. MaxGrid
    /\ start \in Positions(grid_size)
    /\ end \in PathEnds(grid_size)
    /\ num_routes = 0
    /\ main_route = None
    /\ routes = <<>>
    /\ alt_route = <<>>
    /\ current = None
    /\ walks_left = 0
    /\ stuck = FALSE
    /\ rpc = "path_call"

\* path = network.shortest_path(start, end)
PathCall ==
    /\ rpc = "path_call"
    /\ main_route' = ShortestPath(grid_size, start, end)
    /\ rpc' = "path_returned"
    /\ UNCHANGED <<grid_size, start, end, num_routes, routes,
                   alt_route, current, walks_left, stuck>>
    /\ UNCHANGED <<signal_vars, engine_vars, grid_vars, ev_vars>>

PathNext == PathCall

(***************************************************************************)
(* TrafficSignal.  A signal is a record of its fields.  The target green   *)
(* min + (max - min) * (demand / total) is a fraction: it is kept as the   *)
(* pair <<numerator, denominator>>, and "phase_time >= target_green" is    *)
(* compared after multiplying out.  For the whole phase times and the      *)
(* demand totals below 25 that occur here the float comparison of the      *)
(* program gives the same answer as the exact one.                         *)
(***************************************************************************)
NORTH_SOUTH == "ns"
EAST_WEST == "ew"

\* TrafficSignal.__init__
NewSignal ==
    [current_phase   |-> NORTH_SOUTH,
     phase_time      |-> 0,
     ns_queue_length |-> 0,
     ew_queue_length |-> 0]

OtherPhase(ph) == IF ph = NORTH_SOUTH THEN EAST_WEST ELSE NORTH_SOUTH

\* target_green with max_green_time where no demand is sensed
TargetGreenIdleMax(ph, ns_demand, ew_demand) ==
    LET total_demand == ns_demand + ew_demand
    IN  IF total_demand > 0
        THEN IF ph = NORTH_SOUTH
             THEN <<MinGreenTime * total_demand
                      + (MaxGreenTime - MinGreenTime) * ns_demand, total_demand>>
             ELSE <<MinGreenTime * total_demand
                      + (MaxGreenTime - MinGreenTime) * ew_demand, total_demand>>
        ELSE <<MaxGreenTime, 1>>

\* the target green grown by the demand itself, not by its share of the total
TargetGreenByCount(ph, ns_demand, ew_demand) ==
    LET total_demand == ns_demand + ew_demand
    IN  IF total_demand > 0
        THEN IF ph = NORTH_SOUTH
             THEN <<MinGreenTime + (MaxGreenTime - MinGreenTime) * ns_demand, 1>>
             ELSE <<MinGreenTime + (MaxGreenTime - MinGreenTime) * ew_demand, 1>>
        ELSE <<MinGreenTime, 1>>

\* lines 98-106: target_green as <<numerator, denominator>>
TargetGreen(ph, ns_demand, ew_demand) ==
    LET total_demand == ns_demand + ew_demand
    IN  IF total_demand > 0
        THEN IF ph = NORTH_SOUTH
             THEN <<MinGreenTime * total_demand
                      + (MaxGreenTime - MinGreenTime) * ns_demand, total_demand>>
             ELSE <<MinGreenTime * total_demand
                      + (MaxGreenTime - MinGreenTime) * ew_demand, total_demand>>
        ELSE <<MinGreenTime, 1>>

\* "phase_time > target_green" instead of ">="
GreenElapsedStrict(phase_time, target) == phase_time * target[2] > target[1]

\* line 109: phase_time >= target_green
GreenElapsed(phase_time, target) == phase_time * target[2] >= target[1]

\* TrafficSignal.update: the return value
UpdateReturns(sig, dt, ns_demand, ew_demand) ==
    GreenElapsed(sig.phase_time + dt,
                 TargetGreen(sig.current_phase, ns_demand, ew_demand))

\* TrafficSignal.update: the signal after the call
Update(sig, dt, ns_demand, ew_demand) ==
    IF UpdateReturns(sig, dt, ns_demand, ew_demand)
    THEN [current_phase   |-> OtherPhase(sig.current_phase),
          phase_time      |-> 0,
          ns_queue_length |-> ns_demand,
          ew_queue_length |-> ew_demand]
    ELSE [current_phase   |-> sig.current_phase,
          phase_time      |-> sig.phase_time + dt,
          ns_queue_length |-> ns_demand,
          ew_queue_length |-> ew_demand]

\* can_pass with the two phases exchanged
CanPassSwapped(sig, from_pos, to_pos) ==
    LET dx == to_pos[1] - from_pos[1]
        dy == to_pos[2] - from_pos[2]
    IN  IF dx # 0 /\ dy = 0 THEN sig.current_phase = EAST_WEST
        ELSE IF dx = 0 /\ dy # 0 THEN sig.current_phase = NORTH_SOUTH
        ELSE FALSE

\* can_pass without the test of the phase: a movement along one axis passes
CanPassAnyPhase(sig, from_pos, to_pos) ==
    LET dx == to_pos[1] - from_pos[1]
        dy == to_pos[2] - from_pos[2]
    IN  IF dx # 0 /\ dy = 0 THEN TRUE
        ELSE IF dx = 0 /\ dy # 0 THEN TRUE
        ELSE FALSE

\* TrafficSignal.can_pass
CanPass(sig, from_pos, to_pos) ==
    LET dx == to_pos[1] - from_pos[1]
        dy == to_pos[2] - from_pos[2]
    IN  IF dx # 0 /\ dy = 0 THEN sig.current_phase = NORTH_SOUTH
        ELSE IF dx = 0 /\ dy # 0 THEN sig.current_phase = EAST_WEST
        ELSE FALSE

(***************************************************************************)
(* One signal driven by arbitrary calls.                                   *)
(***************************************************************************)
SignalStart ==
    /\ signal = NewSignal
    /\ sig_call = [op |-> "init"]

SignalUpdate ==
    /\ \E dt \in 1 .. MaxDt, ns_demand \in 0 .. MaxDemand, ew_demand \in 0 .. MaxDemand :
          /\ signal' = Update(signal, dt, ns_demand, ew_demand)
          /\ sig_call' = [op  |-> "update", dt |-> dt,
                          ns  |-> ns_demand, ew |-> ew_demand,
                          ret |-> UpdateReturns(signal, dt, ns_demand, ew_demand)]
    /\ UNCHANGED <<route_vars, engine_vars, grid_vars, ev_vars>>

\* can_pass reads only the difference of the two positions: from ranges over
\* the 2 x 2 corner and to over the grid, so that every difference between
\* -1 and MaxGrid - 1 occurs on both axes.
SignalCanPass ==
    /\ \E from_pos \in Positions(2), to_pos \in Positions(MaxGrid) :
          sig_call' = [op  |-> "can_pass", from |-> from_pos, to |-> to_pos,
                       ret |-> CanPass(signal, from_pos, to_pos)]
    /\ UNCHANGED signal
    /\ UNCHANGED <<route_vars, engine_vars, grid_vars, ev_vars>>

SignalNext ==
    \/ SignalUpdate
    \/ SignalCanPass

(***************************************************************************)
(* Vehicle.  Emissions are counted in hundredths of a gram, speeds in      *)
(* metres per second, times in seconds: with time_step = 1 every value the *)
(* program computes is a whole number of these units.                      *)
(***************************************************************************)
\* Vehicle.__init__, then "vehicle.route = ..." of initialize_vehicles
NewVehicle(vehicle_id, origin, destination, route) ==
    [id                  |-> vehicle_id,
     origin              |-> origin,
     destination         |-> destination,
     current_position    |-> origin,
     route               |-> route,
     current_route_index |-> 0,
     speed_mps           |-> 0,
     completed           |-> FALSE,
     travel_time         |-> 0,
     total_delay         |-> 0,
     distance_traveled   |-> 0,
     emissions_g         |-> 0]

\* Vehicle.calculate_emissions
CalculateEmissions(v, dt) ==
    IF v.speed_mps < 1
    THEN [v EXCEPT !.emissions_g = @ + IdleEmission * dt]
    ELSE [v EXCEPT !.emissions_g = @ + MovingEmission * v.speed_mps * dt]

\* update_position without "self.speed_mps = 0.0" for a stopped vehicle
UpdatePositionKeepsSpeed(v, new_position, dt) ==
    LET v1 == IF new_position # v.current_position
              THEN [v EXCEPT !.distance_traveled = @ + HopDistance,
                             !.speed_mps = IF dt > 0 THEN HopDistance \div dt ELSE 0]
              ELSE [v EXCEPT !.total_delay = @ + dt]
        v2 == [v1 EXCEPT !.current_position = new_position,
                         !.travel_time = @ + dt]
    IN  CalculateEmissions(v2, dt)

\* update_position adding dt to total_delay on a move too
UpdatePositionDelaysMove(v, new_position, dt) ==
    LET v1 == IF new_position # v.current_position
              THEN [v EXCEPT !.distance_traveled = @ + HopDistance,
                             !.speed_mps = IF dt > 0 THEN HopDistance \div dt ELSE 0,
                             !.total_delay = @ + dt]
              ELSE [v EXCEPT !.speed_mps = 0,
                             !.total_delay = @ + dt]
        v2 == [v1 EXCEPT !.current_position = new_position,
                         !.travel_time = @ + dt]
    IN  CalculateEmissions(v2, dt)

\* Vehicle.update_position
UpdatePosition(v, new_position, dt) ==
    LET v1 == IF new_position # v.current_position
              THEN [v EXCEPT !.distance_traveled = @ + HopDistance,
                             !.speed_mps = IF dt > 0 THEN HopDistance \div dt ELSE 0]
              ELSE [v EXCEPT !.speed_mps = 0,
                             !.total_delay = @ + dt]
        v2 == [v1 EXCEPT !.current_position = new_position,
                         !.travel_time = @ + dt]
    IN  CalculateEmissions(v2, dt)

(***************************************************************************)
(* TrafficSimulation.move_vehicles: the body of the loop for one vehicle.  *)
(* route[k] of the program is route[k + 1] here.                           *)
(***************************************************************************)
\* the vehicle skips a hop: it takes route[index + 2] as its next position
MoveOneSkipsHop(v, sigs, dt) ==
    IF v.completed THEN v
    ELSE IF v.current_position = v.destination
    THEN [v EXCEPT !.completed = TRUE]
    ELSE IF v.current_route_index < Len(v.route) - 2
    THEN LET next_pos == v.route[v.current_route_index + 3]
         IN  IF CanPass(sigs[v.current_position], v.current_position, next_pos)
             THEN [UpdatePosition(v, next_pos, dt)
                      EXCEPT !.current_route_index = @ + 2]
             ELSE UpdatePosition(v, v.current_position, dt)
    ELSE [v EXCEPT !.completed = TRUE]

\* no "if vehicle.completed: continue", and the flag is negated at the destination
MoveOneTogglesCompleted(v, sigs, dt) ==
    IF v.current_position = v.destination
    THEN [v EXCEPT !.completed = ~@]
    ELSE IF v.current_route_index < Len(v.route) - 1
    THEN LET next_pos == v.route[v.current_route_index + 2]
         IN  IF CanPass(sigs[v.current_position], v.current_position, next_pos)
             THEN [UpdatePosition(v, next_pos, dt)
                      EXCEPT !.current_route_index = @ + 1]
             ELSE UpdatePosition(v, v.current_position, dt)
    ELSE [v EXCEPT !.completed = TRUE]

\* the vehicle is marked completed in the iteration that moves it onto its
\* destination
MoveOneCompletesOnArrival(v, sigs, dt) ==
    IF v.completed THEN v
    ELSE IF v.current_position = v.destination
    THEN [v EXCEPT !.completed = TRUE]
    ELSE IF v.current_route_index < Len(v.route) - 1
    THEN LET next_pos == v.route[v.current_route_index + 2]
         IN  IF CanPass(sigs[v.current_position], v.current_position, next_pos)
             THEN [UpdatePosition(v, next_pos, dt)
                      EXCEPT !.current_route_index = @ + 1,
                             !.completed = (next_pos = v.destination)]
             ELSE UpdatePosition(v, v.current_position, dt)
    ELSE [v EXCEPT !.completed = TRUE]

\* the move without "vehicle.current_route_index += 1"
MoveOneStaleIndex(v, sigs, dt) ==
    IF v.completed THEN v
    ELSE IF v.current_position = v.destination
    THEN [v EXCEPT !.completed = TRUE]
    ELSE IF v.current_route_index < Len(v.route) - 1
    THEN LET next_pos == v.route[v.current_route_index + 2]
         IN  IF CanPass(sigs[v.current_position], v.current_position, next_pos)
             THEN UpdatePosition(v, next_pos, dt)
             ELSE UpdatePosition(v, v.current_position, dt)
    ELSE [v EXCEPT !.completed = TRUE]

MoveOne(v, sigs, dt) ==
    IF v.completed THEN v
    ELSE IF v.current_position = v.destination
    THEN [v EXCEPT !.completed = TRUE]
    ELSE IF v.current_route_index < Len(v.route) - 1
    THEN LET next_pos == v.route[v.current_route_index + 2]
         IN  IF CanPass(sigs[v.current_position], v.current_position, next_pos)
             THEN [UpdatePosition(v, next_pos, dt)
                      EXCEPT !.current_route_index = @ + 1]
             ELSE UpdatePosition(v, v.current_position, dt)
    ELSE [v EXCEPT !.completed = TRUE]

\* the append of line 304 without the "if vehicle.completed: continue" before it
AppendsCompletedAgain(v) == v.current_position = v.destination

\* line 304: the vehicle is appended to completed_vehicles in this iteration
AppendsCompleted(v) == ~v.completed /\ v.current_position = v.destination

\* an iteration that lets one vehicle per tick into an intersection: the
\* vehicle waits when a vehicle advanced earlier in the tick stands on its
\* next position
MoveVehicleAtOneAtATime(st, i, sigs, dt) ==
    LET v     == st.vehicles[i]
        taken == /\ ~v.completed
                 /\ v.current_position # v.destination
                 /\ v.current_route_index < Len(v.route) - 1
                 /\ \E j \in DOMAIN st.vehicles :
                       /\ j # i
                       /\ ~st.vehicles[j].completed
                       /\ st.vehicles[j].travel_time > v.travel_time
                       /\ st.vehicles[j].current_position
                             = v.route[v.current_route_index + 2]
    IN  [vehicles           |-> [st.vehicles EXCEPT ![i] =
                                    IF taken
                                    THEN UpdatePosition(v, v.current_position, dt)
                                    ELSE MoveOne(v, sigs, dt)],
         completed_vehicles |-> IF AppendsCompleted(v)
                                THEN Append(st.completed_vehicles, v.id)
                                ELSE st.completed_vehicles]

\* an iteration in which a blocked vehicle holds up the others waiting at its
\* intersection: their total_delay grows too
MoveVehicleAtDelaysOthers(st, i, sigs, dt) ==
    LET v       == st.vehicles[i]
        blocked == /\ ~v.completed
                   /\ MoveOne(v, sigs, dt).current_position = v.current_position
    IN  [vehicles           |-> [j \in DOMAIN st.vehicles |->
                                    IF j = i THEN MoveOne(v, sigs, dt)
                                    ELSE IF /\ blocked
                                            /\ ~st.vehicles[j].completed
                                            /\ st.vehicles[j].current_position
                                                  = v.current_position
                                    THEN [st.vehicles[j] EXCEPT !.total_delay = @ + dt]
                                    ELSE st.vehicles[j]],
         completed_vehicles |-> IF AppendsCompleted(v)
                                THEN Append(st.completed_vehicles, v.id)
                                ELSE st.completed_vehicles]

\* one iteration of "for vehicle in self.vehicles", on the i-th vehicle;
\* st holds the vehicles and completed_vehicles
MoveVehicleAt(st, i, sigs, dt) ==
    [vehicles           |-> [st.vehicles EXCEPT ![i] = MoveOne(@, sigs, dt)],
     completed_vehicles |-> IF AppendsCompleted(st.vehicles[i])
                            THEN Append(st.completed_vehicles, st.vehicles[i].id)
                            ELSE st.completed_vehicles]

\* the iterations for the i-th vehicle of the list and those after it
RECURSIVE MoveFrom(_, _, _, _)
MoveFrom(st, i, sigs, dt) ==
    IF i > Len(st.vehicles) THEN st
    ELSE MoveFrom(MoveVehicleAt(st, i, sigs, dt), i + 1, sigs, dt)

(***************************************************************************)
(* TrafficSimulation.update_traffic_signals: the demands counted at pos.   *)
(***************************************************************************)
NsDemand(vs, pos) ==
    Cardinality({i \in DOMAIN vs :
        /\ ~vs[i].completed
        /\ vs[i].current_position = pos
        /\ Len(vs[i].route) > vs[i].current_route_index + 1})

\* the east-west demand counting the vehicles without route remaining only
EwDemandNoRoute(vs, pos) ==
    Cardinality({i \in DOMAIN vs :
        /\ ~vs[i].completed
        /\ vs[i].current_position = pos
        /\ Len(vs[i].route) <= vs[i].current_route_index + 1})

EwDemand(vs, pos) ==
    Cardinality({i \in DOMAIN vs :
        ~vs[i].completed /\ vs[i].current_position = pos})

\* the demands sensed are passed to the signal in fixed-timing mode too
UpdateSignalAtSensed(sigs, vs, pos, dt, adaptive) ==
    Update(sigs[pos], dt, NsDemand(vs, pos), EwDemand(vs, pos))

\* a signal with vehicles waiting at it is left as it is
UpdateSignalAtOnlyIdle(sigs, vs, pos, dt, adaptive) ==
    IF EwDemand(vs, pos) > 0
    THEN sigs[pos]
    ELSE IF adaptive
    THEN Update(sigs[pos], dt, NsDemand(vs, pos), EwDemand(vs, pos))
    ELSE Update(sigs[pos], dt, 1, 1)

\* fixed timing with the east-west weight grown by the vehicles waiting
UpdateSignalAtFixedWeighted(sigs, vs, pos, dt, adaptive) ==
    IF adaptive
    THEN Update(sigs[pos], dt, NsDemand(vs, pos), EwDemand(vs, pos))
    ELSE Update(sigs[pos], dt, 1, 1 + EwDemand(vs, pos))

UpdateSignalAt(sigs, vs, pos, dt, adaptive) ==
    IF adaptive
    THEN Update(sigs[pos], dt, NsDemand(vs, pos), EwDemand(vs, pos))
    ELSE Update(sigs[pos], dt, 1, 1)

(***************************************************************************)
(* TrafficSimulation.collect_metrics.                                      *)
(***************************************************************************)
\* the queue counted without "not v.completed"
QueueAtCountsCompleted(vs, pos) ==
    Cardinality({i \in DOMAIN vs : vs[i].current_position = pos})

QueueAt(vs, pos) ==
    Cardinality({i \in DOMAIN vs :
        ~vs[i].completed /\ vs[i].current_position = pos})

RECURSIVE SumEmissions(_, _)
SumEmissions(vs, i) ==
    IF i > Len(vs) THEN 0 ELSE vs[i].emissions_g + SumEmissions(vs, i + 1)

\* the vehicle of the list with this id
VehicleById(vs, vehicle_id) == vs[CHOOSE i \in DOMAIN vs : vs[i].id = vehicle_id]

RECURSIVE SumTravelTime(_, _, _)
SumTravelTime(vs, done, i) ==
    IF i > Len(done) THEN 0
    ELSE VehicleById(vs, done[i]).travel_time + SumTravelTime(vs, done, i + 1)

\* np.mean of the travel times, as the fraction <<sum, count>>
MeanTravelTime(vs, done) == <<SumTravelTime(vs, done, 1), Len(done)>>

(***************************************************************************)
(* initialize_vehicles: the routes a vehicle can be given.  A route is one *)
(* get_alternative_routes(origin, destination) can return: the shortest    *)
(* path, or the route of a random walk (lines 202-227), replayed here move *)
(* by move.  The runs explored draw every vehicle from FleetRoutes.        *)
(***************************************************************************)
IsWalkRoute(N, r) ==
    LET n   == Len(r) - 1
        alt == SubSeq(r, 1, n)
        e   == r[n + 1]
        last_choices == WalkChoices(N, SubSeq(alt, 1, n - 1), alt[n])
    IN  /\ Len(r) > 2
        /\ \A i \in 1 .. n : alt[i] # e
        /\ \A i \in 1 .. n - 1 :
              alt[i + 1] \in WalkChoices(N, SubSeq(alt, 1, i - 1), alt[i])
        /\ \/ e \in last_choices
           \/ \E p \in last_choices : p # e /\ WalkChoices(N, alt, p) = {}

Assignable(N, r) ==
    /\ Len(r) >= 2
    /\ r[1] \in Positions(N)
    /\ r[Len(r)] \in Positions(N)
    /\ r[1] # r[Len(r)]
    /\ \/ r = ShortestPath(N, r[1], r[Len(r)])
       \/ IsWalkRoute(N, r)

CandidateRoutes ==
    { << <<0, 0>>, <<1, 0>>, <<2, 0>> >>,
      << <<0, 0>>, <<0, 1>>, <<1, 1>> >>,
      << <<0, 0>>, <<1, 0>>, <<1, 1>> >>,
      << <<1, 0>>, <<1, 1>>, <<0, 1>>, <<0, 2>> >>,
      << <<1, 0>>, <<1, 1>>, <<0, 1>>, <<2, 1>> >>,
      << <<1, 0>>, <<1, 1>>, <<0, 1>>, <<2, 2>> >>,
      ShortestPath(NetworkGridSize, <<0, 0>>, <<4, 4>>) }

FleetRoutes == {r \in CandidateRoutes : Assignable(NetworkGridSize, r)}

(***************************************************************************)
(* TrafficSimulation.run_simulation.                                       *)
(***************************************************************************)
EngineStart ==
    /\ use_helics \in BOOLEAN
    /\ federate = None
    /\ adaptive_signals \in BOOLEAN
    /\ sim_duration = SimDuration
    /\ \E fleet \in [1 .. NumVehicles -> FleetRoutes] :
          vehicles = [i \in 1 .. NumVehicles |->
                        NewVehicle(i - 1, fleet[i][1], fleet[i][Len(fleet[i])], fleet[i])]
    /\ signals = [pos \in Positions(NetworkGridSize) |-> NewSignal]
    /\ completed_vehicles = <<>>
    /\ queue_lengths = [pos \in Positions(NetworkGridSize) |-> <<>>]
    /\ total_emissions = <<>>
    /\ average_travel_times = <<>>
    /\ current_time = 0
    /\ step = 0
    /\ epc = IF 0 < sim_duration THEN "signals" ELSE "done"

(***************************************************************************)
(* The run with a single vehicle from (0,0) to (4,4) and adaptive signals. *)
(* Its route is one get_alternative_routes((0,0), (4,4)) can return: the   *)
(* shortest path, a walk that reached (4,4), a walk that got stuck at      *)
(* (0,4) after (1,4), and a walk that got stuck at (1,1) after (0,1).      *)
(***************************************************************************)
ScenarioCandidates ==
    { ShortestPath(NetworkGridSize, <<0, 0>>, <<4, 4>>),
      << <<0, 0>>, <<0, 1>>, <<0, 2>>, <<0, 3>>, <<1, 3>>, <<1, 4>>,
         <<2, 4>>, <<3, 4>>, <<4, 4>> >>,
      << <<0, 0>>, <<0, 1>>, <<0, 2>>, <<0, 3>>, <<1, 3>>, <<1, 4>>,
         <<4, 4>> >>,
      << <<0, 0>>, <<1, 0>>, <<2, 0>>, <<2, 1>>, <<2, 2>>, <<1, 2>>,
         <<0, 2>>, <<0, 1>>, <<4, 4>> >> }

ScenarioRoutes == {r \in ScenarioCandidates : Assignable(NetworkGridSize, r)}

ScenarioStart ==
    /\ use_helics \in BOOLEAN
    /\ federate = None
    /\ adaptive_signals = TRUE
    /\ sim_duration = ScenarioHorizon
    /\ \E r \in ScenarioRoutes :
          vehicles = <<NewVehicle(0, <<0, 0>>, <<4, 4>>, r)>>
    /\ signals = [pos \in Positions(NetworkGridSize) |-> NewSignal]
    /\ completed_vehicles = <<>>
    /\ queue_lengths = [pos \in Positions(NetworkGridSize) |-> <<>>]
    /\ total_emissions = <<>>
    /\ average_travel_times = <<>>
    /\ current_time = 0
    /\ step = 0
    /\ epc = IF 0 < sim_duration THEN "signals" ELSE "done"

\* update_traffic_signals called after move_vehicles: the vehicles are moved
\* under the phases of the previous tick, then the signals are updated
UpdateTrafficSignalsAfterMove ==
    /\ epc = "signals"
    /\ LET st == MoveFrom([vehicles |-> vehicles,
                            completed_vehicles |-> completed_vehicles],
                           1, signals, TimeStep)
       IN  /\ vehicles' = st.vehicles
           /\ completed_vehicles' = st.completed_vehicles
           /\ signals' = [pos \in DOMAIN signals |->
                            UpdateSignalAt(signals, st.vehicles, pos, TimeStep,
                                           adaptive_signals)]
    /\ epc' = "metrics"
    /\ UNCHANGED <<use_helics, federate, adaptive_signals, sim_duration,
                   queue_lengths, total_emissions, average_travel_times,
                   current_time, step>>
    /\ UNCHANGED <<route_vars, signal_vars, grid_vars, ev_vars>>

\* line 351: self.update_traffic_signals(self.time_step)
UpdateTrafficSignals ==
    /\ epc = "signals"
    /\ signals' = [pos \in DOMAIN signals |->
                     UpdateSignalAt(signals, vehicles, pos, TimeStep, adaptive_signals)]
    /\ epc' = "move"
    /\ UNCHANGED <<use_helics, federate, adaptive_signals, sim_duration,
                   vehicles,
                   completed_vehicles, queue_lengths, total_emissions,
                   average_travel_times, current_time, step>>
    /\ UNCHANGED <<route_vars, signal_vars, grid_vars, ev_vars>>

\* line 354: self.move_vehicles(self.time_step)
MoveVehicles ==
    /\ epc = "move"
    /\ LET st == MoveFrom([vehicles |-> vehicles,
                            completed_vehicles |-> completed_vehicles],
                           1, signals, TimeStep)
       IN  /\ vehicles' = st.vehicles
           /\ completed_vehicles' = st.completed_vehicles
    /\ epc' = "metrics"
    /\ UNCHANGED <<use_helics, federate, adaptive_signals, sim_duration,
                   signals,
                   queue_lengths, total_emissions, average_travel_times,
                   current_time, step>>
    /\ UNCHANGED <<route_vars, signal_vars, grid_vars, ev_vars>>

\* collect_metrics with a total that depends on more than the signal mode,
\* the time step, the horizon and the vehicles of the run
CollectMetricsUnseeded ==
    /\ epc = "metrics"
    /\ queue_lengths' = [pos \in DOMAIN queue_lengths |->
                           Append(queue_lengths[pos], QueueAt(vehicles, pos))]
    /\ total_emissions' = Append(total_emissions,
                                 SumEmissions(vehicles, 1)
                                   + (IF use_helics THEN 1 ELSE 0))
    /\ average_travel_times' =
          IF completed_vehicles # <<>>
          THEN Append(average_travel_times,
                      MeanTravelTime(vehicles, completed_vehicles))
          ELSE average_travel_times
    /\ epc' = "time"
    /\ UNCHANGED <<use_helics, federate, adaptive_signals, sim_duration,
                   vehicles, signals, completed_vehicles, current_time, step>>
    /\ UNCHANGED <<route_vars, signal_vars, grid_vars, ev_vars>>

\* line 357: self.collect_metrics()
CollectMetrics ==
    /\ epc = "metrics"
    /\ queue_lengths' = [pos \in DOMAIN queue_lengths |->
                           Append(queue_lengths[pos], QueueAt(vehicles, pos))]
    /\ total_emissions' = Append(total_emissions, SumEmissions(vehicles, 1))
    /\ average_travel_times' =
          IF completed_vehicles # <<>>
          THEN Append(average_travel_times,
                      MeanTravelTime(vehicles, completed_vehicles))
          ELSE average_travel_times
    /\ epc' = "time"
    /\ UNCHANGED <<use_helics, federate, adaptive_signals, sim_duration,
                   vehicles, signals,
                   completed_vehicles, current_time, step>>
    /\ UNCHANGED <<route_vars, signal_vars, grid_vars, ev_vars>>

\* the clock advanced by two time steps in a tick
AdvanceTimeTwice ==
    /\ epc = "time"
    /\ ~(use_helics /\ federate # None)
    /\ current_time' = current_time + 2 * TimeStep
    /\ step' = step + 1
    /\ epc' = IF current_time' < sim_duration THEN "signals" ELSE "done"
    /\ UNCHANGED <<use_helics, federate, adaptive_signals, sim_duration,
                   vehicles, signals, completed_vehicles, queue_lengths,
                   total_emissions, average_travel_times>>
    /\ UNCHANGED <<route_vars, signal_vars, grid_vars, ev_vars>>

\* lines 359-366 and the loop test of line 349.  federate is never set by
\* TrafficSimulation, so "self.use_helics and self.federate" is false.
AdvanceTime ==
    /\ epc = "time"
    /\ ~(use_helics /\ federate # None)
    /\ current_time' = current_time + TimeStep
    /\ step' = step + 1
    /\ epc' = IF current_time' < sim_duration THEN "signals" ELSE "done"
    /\ UNCHANGED <<use_helics, federate, adaptive_signals, sim_duration,
                   vehicles, signals,
                   completed_vehicles, queue_lengths, total_emissions,
                   average_travel_times>>
    /\ UNCHANGED <<route_vars, signal_vars, grid_vars, ev_vars>>

EngineNext ==
    \/ UpdateTrafficSignals
    \/ MoveVehicles
    \/ CollectMetrics
    \/ AdvanceTime

(***************************************************************************)
(* SmartGridFederate (scenario_e1): setup_federate, then the loop of       *)
(* run_simulation with its time request.  The generation, load, dispatch   *)
(* and voltage values of a tick are random draws and float arithmetic that *)
(* do not reach the clock: of the metric lists only the number of entries  *)
(* is kept.  A HELICS call either returns or raises; a granted time is the *)
(* time requested.                                                         *)
(***************************************************************************)
GridStart ==
    /\ grid_use_helics \in BOOLEAN
    /\ grid_federate = None
    /\ grid_current_time = 0
    /\ grid_step = 0
    /\ grid_records = 0
    /\ gpc = "setup"

\* setup_federate: a failure inside its try block is caught, and the
\* federate then runs standalone
SetupFederate ==
    /\ gpc = "setup"
    /\ IF ~grid_use_helics
       THEN UNCHANGED <<grid_use_helics, grid_federate>>
       ELSE \/ /\ grid_federate' = <<"federate">>
               /\ UNCHANGED grid_use_helics
            \/ /\ grid_federate' = None
               /\ grid_use_helics' = FALSE
    /\ gpc' = "loop"
    /\ UNCHANGED <<grid_current_time, grid_step, grid_records>>
    /\ UNCHANGED <<route_vars, signal_vars, engine_vars, ev_vars>>

\* lines 274-315: the loop test and the body of a tick up to the metrics
GridTick ==
    /\ gpc = "loop"
    /\ grid_current_time < GridSimDuration
    /\ grid_records' = grid_records + 1
    /\ gpc' = "advance"
    /\ UNCHANGED <<grid_use_helics, grid_federate, grid_current_time, grid_step>>
    /\ UNCHANGED <<route_vars, signal_vars, engine_vars, ev_vars>>

\* lines 318-324 and 329: publish and request the next time.  No try block
\* encloses the calls: an exception leaves run_simulation and, uncaught by
\* run_scenario_e1 and main, ends the program.
GridRequestTime ==
    /\ gpc = "advance"
    /\ grid_use_helics /\ grid_federate # None
    /\ \/ /\ grid_current_time' = grid_current_time + GridTimeStep
          /\ grid_step' = grid_step + 1
          /\ gpc' = "loop"
       \/ /\ gpc' = "aborted"
          /\ UNCHANGED <<grid_current_time, grid_step>>
    /\ UNCHANGED <<grid_use_helics, grid_federate, grid_records>>
    /\ UNCHANGED <<route_vars, signal_vars, engine_vars, ev_vars>>

\* lines 325-329: standalone mode
GridAdvanceLocal ==
    /\ gpc = "advance"
    /\ ~(grid_use_helics /\ grid_federate # None)
    /\ grid_current_time' = grid_current_time + GridTimeStep
    /\ grid_step' = grid_step + 1
    /\ gpc' = "loop"
    /\ UNCHANGED <<grid_use_helics, grid_federate, grid_records>>
    /\ UNCHANGED <<route_vars, signal_vars, engine_vars, ev_vars>>

\* line 274 false, line 336: "Simulation completed"
GridFinish ==
    /\ gpc = "loop"
    /\ ~(grid_current_time < GridSimDuration)
    /\ gpc' = "done"
    /\ UNCHANGED <<grid_use_helics, grid_federate, grid_current_time,
                   grid_step, grid_records>>
    /\ UNCHANGED <<route_vars, signal_vars, engine_vars, ev_vars>>

GridNext ==
    \/ SetupFederate
    \/ GridTick
    \/ GridRequestTime
    \/ GridAdvanceLocal
    \/ GridFinish

(***************************************************************************)
(* A run as a function of its configuration and of the data drawn by       *)
(* initialize_vehicles: the objects before the first tick, one iteration   *)
(* of the loop (lines 350-357), and k iterations.                          *)
(***************************************************************************)
\* the function f with its values computed at once, not at each use
Computed(f) == f @@ <<>>

RunStart(vs) ==
    [vehicles             |-> Computed([i \in DOMAIN vs |->
                                 NewVehicle(vs[i].id, vs[i].origin,
                                            vs[i].destination, vs[i].route)]),
     signals              |-> [pos \in Positions(NetworkGridSize) |-> NewSignal],
     completed_vehicles   |-> <<>>,
     queue_lengths        |-> [pos \in Positions(NetworkGridSize) |-> <<>>],
     total_emissions      |-> <<>>,
     average_travel_times |-> <<>>]

RunTick(st, adaptive) ==
    LET sigs  == Computed([pos \in DOMAIN st.signals |->
                    UpdateSignalAt(st.signals, st.vehicles, pos, TimeStep, adaptive)])
        moved == MoveFrom([vehicles |-> st.vehicles,
                           completed_vehicles |-> st.completed_vehicles],
                          1, sigs, TimeStep)
    IN  [vehicles             |-> moved.vehicles,
         signals              |-> sigs,
         completed_vehicles   |-> moved.completed_vehicles,
         queue_lengths        |-> Computed([pos \in DOMAIN st.queue_lengths |->
                                     Append(st.queue_lengths[pos],
                                            QueueAt(moved.vehicles, pos))]),
         total_emissions      |-> Append(st.total_emissions,
                                         SumEmissions(moved.vehicles, 1)),
         average_travel_times |->
             IF moved.completed_vehicles # <<>>
             THEN Append(st.average_travel_times,
                         MeanTravelTime(moved.vehicles, moved.completed_vehicles))
             ELSE st.average_travel_times]

\* k iterations; the run after the first k \div 2 of them is computed before
\* the others are begun
RECURSIVE RunTicks(_, _, _)
RunTicks(st, adaptive, k) ==
    IF k = 0 THEN st
    ELSE IF k = 1 THEN RunTick(st, adaptive)
    ELSE LET half == RunTicks(st, adaptive, k \div 2)
         IN  IF Len(half.total_emissions) >= k \div 2
             THEN RunTicks(half, adaptive, k - k \div 2)
             ELSE half

(***************************************************************************)
(* EVChargingFederate (scenario_e2).  Powers are counted in tenths of a kW,*)
(* energies in Wh, times in seconds.  The state of charge of a vehicle is  *)
(* kept as the energy in its battery, soc * battery_capacity_kwh, in Wh:   *)
(* soc < soc_target is soc < 8/10 of the capacity.  A tick is 1/12 hour    *)
(* and charging is 90 % efficient, so a power of p tenths of a kW charges  *)
(* p * 100 / 12 * 9/10 = p * 15 / 2 Wh in a tick.  The costs, the load     *)
(* profiles, the transformer loadings and the voltage deviations are       *)
(* computed from these values and read by nothing in the loop; they are    *)
(* not kept, except that recording the total load ends the run when the    *)
(* strategy has no load profile.  federate is never set, so the clock      *)
(* advances locally.                                                       *)
(***************************************************************************)
\* ElectricVehicle.__init__
NewEv(ev_id, battery_capacity, initial_soc, v2g_enabled) ==
    [id                    |-> ev_id,
     battery_capacity_kwh  |-> battery_capacity,
     soc                   |-> initial_soc,
     v2g_enabled           |-> v2g_enabled,
     arrival_time          |-> 0,
     departure_time        |-> 0,
     is_connected          |-> FALSE,
     charging_station_id   |-> None,
     energy_charged_kwh    |-> 0,
     energy_discharged_kwh |-> 0]

SocMin(v) == (1 * v.battery_capacity_kwh) \div 10
SocMax(v) == (9 * v.battery_capacity_kwh) \div 10
SocTarget(v) == (8 * v.battery_capacity_kwh) \div 10

\* ElectricVehicle.connect
Connect(v, arrival_time, departure_time, station_id) ==
    [v EXCEPT !.arrival_time = arrival_time,
              !.departure_time = departure_time,
              !.charging_station_id = <<station_id>>,
              !.is_connected = TRUE]

\* ElectricVehicle.disconnect
Disconnect(v) ==
    [v EXCEPT !.is_connected = FALSE, !.charging_station_id = None]

\* ElectricVehicle.charge: the energy charged, in Wh
ChargeEnergy(v, power_kw) ==
    IF ~v.is_connected THEN 0
    ELSE LET max_charge         == IF power_kw < MaxChargeRate
                                   THEN power_kw ELSE MaxChargeRate
             by_power           == (max_charge * 15) \div 2
             available_capacity == SocMax(v) - v.soc
         IN  IF by_power < available_capacity THEN by_power ELSE available_capacity

\* ElectricVehicle.charge: the vehicle after the call
Charge(v, power_kw) ==
    [v EXCEPT !.soc = @ + ChargeEnergy(v, power_kw),
              !.energy_charged_kwh = @ + ChargeEnergy(v, power_kw)]

\* ElectricVehicle.discharge: the energy discharged, in Wh (a power of p
\* tenths of a kW is p * 100 / 12 Wh in a tick)
DischargeEnergy(v, power_kw) ==
    IF ~v.is_connected \/ ~v.v2g_enabled THEN 0
    ELSE LET max_discharge    == IF power_kw < MaxDischargeRate
                                 THEN power_kw ELSE MaxDischargeRate
             by_power         == (max_discharge * 25) \div 3
             available_energy == v.soc - SocMin(v)
         IN  IF by_power < available_energy THEN by_power ELSE available_energy

\* ElectricVehicle.discharge: the vehicle after the call
Discharge(v, power_kw) ==
    [v EXCEPT !.soc = @ - DischargeEnergy(v, power_kw),
              !.energy_discharged_kwh = @ + DischargeEnergy(v, power_kw)]

\* ElectricVehicle.get_energy_need_kwh
EnergyNeed(v) == Max(0, SocTarget(v) - v.soc)

\* ElectricVehicle.get_available_time_hours, in seconds
AvailableTime(v, now) ==
    IF ~v.is_connected THEN 0 ELSE Max(0, v.departure_time - now)

\* ChargingStation.__init__
NewStation(station_id, charger_type, num_ports) ==
    [id                 |-> station_id,
     charger_type       |-> charger_type,
     num_ports          |-> num_ports,
     max_power_kw       |-> IF charger_type = "level_2" THEN Level2Power
                            ELSE DcFastPower,
     connected_vehicles |-> <<>>]

\* ChargingStation.can_accept_vehicle
CanAcceptVehicle(s) == Len(s.connected_vehicles) < s.num_ports

\* TimeOfUseTariff.get_price at the time now of the first day
GetPrice(now) ==
    IF now < 7 * 3600 \/ now >= 23 * 3600 THEN OffPeakPrice
    ELSE IF now >= 17 * 3600 /\ now < 21 * 3600 THEN OnPeakPrice
    ELSE MidPeakPrice

\* EVChargingFederate.calculate_base_load at the time now of the first day
CalculateBaseLoad(now) ==
    IF now < 6 * 3600 THEN (EvBaseLoad * 50) \div 100
    ELSE IF now < 9 * 3600 THEN (EvBaseLoad * 75) \div 100
    ELSE IF now < 17 * 3600 THEN (EvBaseLoad * 80) \div 100
    ELSE IF now < 22 * 3600 THEN EvBaseLoad
    ELSE (EvBaseLoad * 60) \div 100

\* initialize_components: the vehicles, with the draws of capacity, initial
\* soc and V2G capability given per vehicle, and the stations
EvProfiles ==
    { [capacity |-> 40000, soc |-> 8000,  v2g |-> TRUE],
      [capacity |-> 40000, soc |-> 20000, v2g |-> FALSE] }

InitialStations ==
    [k \in 1 .. NumLevel2 + NumDcFast |->
        IF k <= NumLevel2
        THEN NewStation(k - 1, "level_2", 1)
        ELSE NewStation(k - 1, "dc_fast", 2)]

\* generate_arrival_patterns: the <<arrival, departure>> a vehicle can draw,
\* in seconds.  At home the arrival is between 17:00 and 20:00 and the
\* departure between 07:00 and 09:00 of the next day; at a fast charger the
\* arrival is between 08:00 and 18:00 and the stay 30 to 60 minutes.
HomeTrips == { <<61200, 111600>>, <<72000, 118800>> }

FastTrips == { <<28800, 30600>>, <<63000, 66600>> }

\* the first station of the given type with a free port, 0 if there is none
FirstFree(stations, charger_type) ==
    LET free == {k \in DOMAIN stations :
                    /\ stations[k].charger_type = charger_type
                    /\ CanAcceptVehicle(stations[k])}
    IN  IF free = {} THEN 0
        ELSE CHOOSE k \in free : \A m \in free : k <= m

\* generate_arrival_patterns: the iterations for the i-th vehicle and those
\* after it; st holds the vehicles and the stations, trips the draws
RECURSIVE ConnectFrom(_, _, _)
ConnectFrom(st, i, trips) ==
    IF i > Len(st.vehicles) THEN st
    ELSE LET k == FirstFree(st.stations,
                            IF i - 1 < NumHomeEvs THEN "level_2" ELSE "dc_fast")
         IN  IF k = 0 THEN ConnectFrom(st, i + 1, trips)
             ELSE ConnectFrom(
                    [vehicles |-> [st.vehicles EXCEPT ![i] =
                                      Connect(@, trips[i][1], trips[i][2],
                                              st.stations[k].id)],
                     stations |-> [st.stations EXCEPT ![k].connected_vehicles =
                                      Append(@, st.vehicles[i].id)]],
                    i + 1, trips)

TripDraws ==
    [1 .. NumEvs -> HomeTrips \cup FastTrips]

IsTripDraw(trips) ==
    \A i \in 1 .. NumEvs :
        trips[i] \in (IF i - 1 < NumHomeEvs THEN HomeTrips ELSE FastTrips)

\* the vehicle of the list with this id
EvById(vs, ev_id) == vs[CHOOSE i \in DOMAIN vs : vs[i].id = ev_id]

\* the station a vehicle is connected to
StationOf(stations, ev_id) ==
    stations[CHOOSE k \in DOMAIN stations :
                /\ \E n \in DOMAIN stations[k].connected_vehicles :
                      stations[k].connected_vehicles[n] = ev_id
                /\ \A m \in DOMAIN stations :
                      (\E n \in DOMAIN stations[m].connected_vehicles :
                          stations[m].connected_vehicles[n] = ev_id) => k <= m]

\* min(station.max_power_kw, vehicle.max_charge_rate_kw)
RateOf(stations, ev_id) ==
    IF StationOf(stations, ev_id).max_power_kw < MaxChargeRate
    THEN StationOf(stations, ev_id).max_power_kw ELSE MaxChargeRate

\* "all_vehicles.extend(station.connected_vehicles)" for the stations from
\* the k-th on
RECURSIVE AllVehicles(_, _)
AllVehicles(stations, k) ==
    IF k > Len(stations) THEN <<>>
    ELSE stations[k].connected_vehicles \o AllVehicles(stations, k + 1)

\* optimize_charging: the priority of a vehicle, urgency * price_factor, as
\* the fraction <<numerator, denominator>>: energy_need in Wh times twice
\* the price factor, over max(time_available, 0.1 h) in minutes
Priority(v, now) ==
    <<EnergyNeed(v) * (IF GetPrice(now % 86400) < 150 THEN 2 ELSE 1),
      Max(AvailableTime(v, now), 360) \div 60>>

PriorityGreater(p, q) == p[1] * q[2] > q[1] * p[2]

\* list.sort(key, reverse=True): the vehicle is put behind the vehicles of
\* the sorted list whose priority is not smaller than its own
RECURSIVE InsertByPriority(_, _, _, _)
InsertByPriority(sorted, ev_id, vs, now) ==
    IF sorted = <<>> THEN <<ev_id>>
    ELSE IF PriorityGreater(Priority(EvById(vs, ev_id), now),
                            Priority(EvById(vs, Head(sorted)), now))
    THEN <<ev_id>> \o sorted
    ELSE <<Head(sorted)>> \o InsertByPriority(Tail(sorted), ev_id, vs, now)

RECURSIVE SortByPriority(_, _, _)
SortByPriority(ids, vs, now) ==
    IF ids = <<>> THEN <<>>
    ELSE InsertByPriority(SortByPriority(SubSeq(ids, 1, Len(ids) - 1), vs, now),
                          ids[Len(ids)], vs, now)

\* a controller that gives every vehicle the rate of its station and charger
\* without looking at what is left of the grid capacity
AllocateFromUnlimited(alloc, available_capacity, sorted, n, vs, stations) ==
    [ev_id \in Elems(sorted) |->
        LET station == StationOf(stations, ev_id)
        IN  IF station.max_power_kw < MaxChargeRate
            THEN station.max_power_kw ELSE MaxChargeRate]

\* the allocation loop of optimize_charging from the n-th vehicle of the
\* sorted list on; alloc is power_allocation
RECURSIVE AllocateFrom(_, _, _, _, _, _)
AllocateFrom(alloc, available_capacity, sorted, n, vs, stations) ==
    IF n > Len(sorted) THEN alloc
    ELSE IF available_capacity <= 0
    THEN AllocateFrom(Put(alloc, sorted[n], 0), available_capacity,
                      sorted, n + 1, vs, stations)
    ELSE LET station   == StationOf(stations, sorted[n])
             by_rates  == IF station.max_power_kw < MaxChargeRate
                          THEN station.max_power_kw ELSE MaxChargeRate
             max_power == IF by_rates < available_capacity
                          THEN by_rates ELSE available_capacity
         IN  AllocateFrom(Put(alloc, sorted[n], max_power),
                          available_capacity - max_power,
                          sorted, n + 1, vs, stations)

\* a controller that asks the vehicles able to discharge, and holding more
\* than their minimum charge, to feed the grid at their discharge rate
OptimizeChargingFeedsGrid(vs, stations, now, grid_load_kw, grid_capacity_kw) ==
    [ev_id \in Elems(AllVehicles(stations, 1)) |->
        LET v == EvById(vs, ev_id)
        IN  IF v.v2g_enabled /\ v.soc > SocMin(v)
            THEN 0 - MaxDischargeRate
            ELSE RateOf(stations, ev_id)]

\* SmartChargingController.optimize_charging
OptimizeCharging(vs, stations, now, grid_load_kw, grid_capacity_kw) ==
    LET all_vehicles == AllVehicles(stations, 1)
        timed        == SelectSeq(all_vehicles,
                            LAMBDA ev_id : AvailableTime(EvById(vs, ev_id), now) > 0)
    IN  IF all_vehicles = <<>> THEN <<>>
        ELSE AllocateFrom(<<>>, Max(0, grid_capacity_kw - grid_load_kw),
                          SortByPriority(timed, vs, now), 1, vs, stations)

\* EVChargingFederate.uncoordinated_charging
UncoordinatedCharging(vs, stations) ==
    [ev_id \in Elems(AllVehicles(stations, 1)) |->
        LET v       == EvById(vs, ev_id)
            station == StationOf(stations, ev_id)
        IN  IF v.soc < SocTarget(v)
            THEN IF station.max_power_kw < MaxChargeRate
                 THEN station.max_power_kw ELSE MaxChargeRate
            ELSE 0]

\* run_simulation: "Handle vehicle arrivals and departures"
Departs(v, now) == v.is_connected /\ now >= v.departure_time

AfterDepartures(vs, stations, now) ==
    [vehicles |-> [i \in DOMAIN vs |->
                      IF Departs(vs[i], now) THEN Disconnect(vs[i]) ELSE vs[i]],
     stations |-> [k \in DOMAIN stations |->
                      [stations[k] EXCEPT !.connected_vehicles =
                          SelectSeq(@, LAMBDA ev_id :
                                          ~Departs(EvById(vs, ev_id), now))]]]

\* run_simulation: "Apply charging" for one vehicle
ApplyCharging(v, alloc, strategy, now) ==
    IF v.id \notin DOMAIN alloc THEN v
    ELSE IF alloc[v.id] > 0 THEN Charge(v, alloc[v.id])
    ELSE IF /\ strategy = "v2g"
            /\ alloc[v.id] < 0
            /\ now % 86400 >= 17 * 3600
            /\ now % 86400 < 21 * 3600
    THEN Discharge(v, 0 - alloc[v.id])
    ELSE v

\* run_simulation: what a vehicle adds to v2g_energy_kwh in the tick,
\* discharged * dt_hours with discharged = energy_discharged / efficiency
V2gEnergy(v, alloc, strategy, now) ==
    IF /\ v.id \in DOMAIN alloc
       /\ alloc[v.id] < 0
       /\ strategy = "v2g"
       /\ now % 86400 >= 17 * 3600
       /\ now % 86400 < 21 * 3600
    THEN (DischargeEnergy(v, 0 - alloc[v.id]) * 10) \div 108
    ELSE 0

RECURSIVE SumV2g(_, _, _, _, _)
SumV2g(vs, i, alloc, strategy, now) ==
    IF i > Len(vs) THEN 0
    ELSE V2gEnergy(vs[i], alloc, strategy, now)
           + SumV2g(vs, i + 1, alloc, strategy, now)

\* run_scenario_e2: the federate after initialize_components
EvStart ==
    /\ ev_strategy \in {"uncoordinated", "smart", "v2g"}
    /\ \E profile \in [1 .. NumEvs -> EvProfiles] :
          ev_vehicles = [i \in 1 .. NumEvs |->
                            NewEv(i - 1, profile[i].capacity, profile[i].soc,
                                  profile[i].v2g)]
    /\ ev_stations = InitialStations
    /\ ev_current_time = 0
    /\ ev_grid_load_kw = 0
    /\ ev_grid_capacity_kw = EvGridCapacity
    /\ ev_allocation = <<>>
    /\ ev_v2g_energy = 0
    /\ evpc = "arrivals"

\* run_simulation: self.generate_arrival_patterns()
GenerateArrivalPatterns ==
    /\ evpc = "arrivals"
    /\ \E trips \in TripDraws :
          /\ IsTripDraw(trips)
          /\ LET st == ConnectFrom([vehicles |-> ev_vehicles,
                                    stations |-> ev_stations], 1, trips)
             IN  /\ ev_vehicles' = st.vehicles
                 /\ ev_stations' = st.stations
    /\ evpc' = IF ev_current_time < EvSimDuration THEN "allocate" ELSE "done"
    /\ UNCHANGED <<ev_strategy, ev_current_time, ev_grid_load_kw,
                   ev_grid_capacity_kw, ev_allocation, ev_v2g_energy>>
    /\ UNCHANGED <<route_vars, signal_vars, engine_vars, grid_vars>>

\* the loop body up to the choice of power_allocation: the base load, the
\* departures, and the allocation of the strategy
EvAllocate ==
    /\ evpc = "allocate"
    /\ LET st == AfterDepartures(ev_vehicles, ev_stations, ev_current_time)
       IN  /\ ev_vehicles' = st.vehicles
           /\ ev_stations' = st.stations
           /\ ev_grid_load_kw' = CalculateBaseLoad(ev_current_time % 86400)
           /\ ev_allocation' =
                 IF ev_strategy = "uncoordinated"
                 THEN UncoordinatedCharging(st.vehicles, st.stations)
                 ELSE OptimizeCharging(st.vehicles, st.stations, ev_current_time,
                                       CalculateBaseLoad(ev_current_time % 86400),
                                       ev_grid_capacity_kw)
    /\ evpc' = "apply"
    /\ UNCHANGED <<ev_strategy, ev_current_time, ev_grid_capacity_kw, ev_v2g_energy>>
    /\ UNCHANGED <<route_vars, signal_vars, engine_vars, grid_vars>>

\* self.load_profiles, created with the keys "uncoordinated", "smart" and
\* "base": load_profiles[self.strategy.value] raises KeyError for the others
HasLoadProfile(strategy) == strategy \in {"uncoordinated", "smart"}

\* the rest of the loop body: the charging applied, the total load recorded
\* (the run ends there with a KeyError when the strategy has no load
\* profile), the clock advanced
EvApply ==
    /\ evpc = "apply"
    /\ ev_vehicles' = [i \in DOMAIN ev_vehicles |->
                          ApplyCharging(ev_vehicles[i], ev_allocation,
                                        ev_strategy, ev_current_time)]
    /\ ev_v2g_energy' = ev_v2g_energy
                          + SumV2g(ev_vehicles, 1, ev_allocation, ev_strategy,
                                   ev_current_time)
    /\ ev_current_time' = IF HasLoadProfile(ev_strategy)
                           THEN ev_current_time + EvTimeStep
                           ELSE ev_current_time
    /\ evpc' = IF ~HasLoadProfile(ev_strategy) THEN "raised"
               ELSE IF ev_current_time' < EvSimDuration THEN "allocate"
               ELSE "done"
    /\ UNCHANGED <<ev_strategy, ev_stations, ev_grid_load_kw,
                   ev_grid_capacity_kw, ev_allocation>>
    /\ UNCHANGED <<route_vars, signal_vars, engine_vars, grid_vars>>

EvNext ==
    \/ GenerateArrivalPatterns
    \/ EvAllocate
    \/ EvApply

(***************************************************************************)
(* optimize_charging called on its own, on the vehicles and stations as    *)
(* generate_arrival_patterns connects them, at a time, a grid load and a   *)
(* grid capacity of the caller's choice.                                   *)
(***************************************************************************)
OptimizeTimes == {0, 30000, 64800}

OptimizeLoads == {0, 77, 200}

OptimizeCapacities == {0, 150, 250, 50000}

OptimizeStart ==
    /\ ev_strategy = "smart"
    /\ \E profile \in [1 .. NumEvs -> EvProfiles], trips \in TripDraws :
          /\ IsTripDraw(trips)
          /\ LET st == ConnectFrom(
                          [vehicles |-> [i \in 1 .. NumEvs |->
                                            NewEv(i - 1, profile[i].capacity,
                                                  profile[i].soc, profile[i].v2g)],
                           stations |-> InitialStations], 1, trips)
             IN  /\ ev_vehicles = st.vehicles
                 /\ ev_stations = st.stations
    /\ ev_current_time \in OptimizeTimes
    /\ ev_grid_load_kw \in OptimizeLoads
    /\ ev_grid_capacity_kw \in OptimizeCapacities
    /\ ev_allocation = <<>>
    /\ ev_v2g_energy = 0
    /\ evpc = "optimize_call"

\* power_allocation = controller.optimize_charging(current_time, load, capacity)
OptimizeCall ==
    /\ evpc = "optimize_call"
    /\ ev_allocation' = OptimizeCharging(ev_vehicles, ev_stations, ev_current_time,
                                         ev_grid_load_kw, ev_grid_capacity_kw)
    /\ evpc' = "optimize_returned"
    /\ UNCHANGED <<ev_strategy, ev_vehicles, ev_stations, ev_current_time,
                   ev_grid_load_kw, ev_grid_capacity_kw, ev_v2g_energy>>
    /\ UNCHANGED <<route_vars, signal_vars, engine_vars, grid_vars>>

OptimizeNext == OptimizeCall

(***************************************************************************)
(* The specifications.  Each drives one part and holds the others still.   *)
(***************************************************************************)
RouteIdle ==
    /\ grid_size = MaxGrid
    /\ start = None
    /\ end = None
    /\ num_routes = 0
    /\ main_route = None
    /\ routes = <<>>
    /\ alt_route = <<>>
    /\ current = None
    /\ walks_left = 0
    /\ stuck = FALSE
    /\ rpc = "idle"

SignalIdle ==
    /\ signal = NewSignal
    /\ sig_call = [op |-> "idle"]

EngineIdle ==
    /\ use_helics = FALSE
    /\ federate = None
    /\ adaptive_signals = TRUE
    /\ sim_duration = SimDuration
    /\ vehicles = <<>>
    /\ signals = <<>>
    /\ completed_vehicles = <<>>
    /\ queue_lengths = <<>>
    /\ total_emissions = <<>>
    /\ average_travel_times = <<>>
    /\ current_time = 0
    /\ step = 0
    /\ epc = "idle"

GridIdle ==
    /\ grid_use_helics = FALSE
    /\ grid_federate = None
    /\ grid_current_time = 0
    /\ grid_step = 0
    /\ grid_records = 0
    /\ gpc = "idle"

EvIdle ==
    /\ ev_strategy = "smart"
    /\ ev_vehicles = <<>>
    /\ ev_stations = <<>>
    /\ ev_current_time = 0
    /\ ev_grid_load_kw = 0
    /\ ev_grid_capacity_kw = 0
    /\ ev_allocation = <<>>
    /\ ev_v2g_energy = 0
    /\ evpc = "idle"

RouteInit == RouteStart /\ SignalIdle /\ EngineIdle /\ GridIdle /\ EvIdle

SignalInit == SignalStart /\ RouteIdle /\ EngineIdle /\ GridIdle /\ EvIdle

EngineInit == EngineStart /\ RouteIdle /\ SignalIdle /\ GridIdle /\ EvIdle

GridInit == GridStart /\ RouteIdle /\ SignalIdle /\ EngineIdle /\ EvIdle

SpecRoute == RouteInit /\ [][RouteNext]_vars

SpecSignal == SignalInit /\ [][SignalNext]_vars

\* one signal driven by update calls only, as the run of a simulation drives
\* it: update is called on every signal in every tick
SpecSignalUpdates == SignalInit /\ [][SignalUpdate]_vars /\ WF_vars(SignalUpdate)

SpecEngine == EngineInit /\ [][EngineNext]_vars

SpecGrid == GridInit /\ [][GridNext]_vars

PathInit == PathStart /\ SignalIdle /\ EngineIdle /\ GridIdle /\ EvIdle

SpecPath == PathInit /\ [][PathNext]_vars

EvInit == EvStart /\ RouteIdle /\ SignalIdle /\ EngineIdle /\ GridIdle

SpecEv == EvInit /\ [][EvNext]_vars

OptimizeInit == OptimizeStart /\ RouteIdle /\ SignalIdle /\ EngineIdle /\ GridIdle

SpecOptimize == OptimizeInit /\ [][OptimizeNext]_vars

ScenarioInit == ScenarioStart /\ RouteIdle /\ SignalIdle /\ GridIdle /\ EvIdle

SpecScenario == ScenarioInit /\ [][EngineNext]_vars

\* run_simulation is sequential code: the loop takes its next step as long as
\* it has one
SpecScenarioLive == SpecScenario /\ WF_vars(EngineNext)

(***************************************************************************)
(* Properties of the route generator.                                      *)
(***************************************************************************)
Adjacent(a, b) == Abs(a[1] - b[1]) + Abs(a[2] - b[2]) = 1

StepsAdjacent(r) == \A i \in 1 .. Len(r) - 1 : Adjacent(r[i], r[i + 1])

NoRepeat(r) == \A i, j \in 1 .. Len(r) : i # j => r[i] # r[j]

\* C1: shortest_path(a, b) starts at a, ends at b, moves between von-Neumann
\* adjacent positions only, and its hop count len - 1 is the Manhattan
\* distance of a and b, for every grid size and every pair of positions.
C1_ShortestPathIsManhattan ==
    rpc # "call" =>
        /\ Len(main_route) >= 1
        /\ main_route[1] = start
        /\ main_route[Len(main_route)] = end
        /\ StepsAdjacent(main_route)
        /\ Len(main_route) - 1 = Abs(start[1] - end[1]) + Abs(start[2] - end[2])

C1_Witness ==
    /\ rpc # "call"
    /\ grid_size = 3
    /\ start = <<2, 0>>
    /\ end = <<0, 2>>
    /\ Len(main_route) = 5

\* C2: for start # end, get_alternative_routes returns at least 1 and at most
\* max(k, 1) routes and element 0 is the route shortest_path(start, end)
\* returned (main_route), whatever the walks chose.
C2_MainRouteFirst ==
    (rpc = "done" /\ start # end) =>
        /\ 1 <= Len(routes)
        /\ Len(routes) <= Max(num_routes, 1)
        /\ main_route # None
        /\ routes[1] = main_route

C2_Witness ==
    /\ rpc = "done"
    /\ start # end
    /\ num_routes = 3
    /\ Len(routes) = 3
    /\ routes[2] # routes[1]
    /\ routes[3] # routes[1]

\* C3: every route of the returned list has start as its first element, end
\* as its last element, and holds no position twice.
C3_RoutesStartEndNoRepeat ==
    \A i \in 1 .. Len(routes) :
        /\ Len(routes[i]) >= 1
        /\ routes[i][1] = start
        /\ routes[i][Len(routes[i])] = end
        /\ NoRepeat(routes[i])

C3_Witness ==
    /\ rpc = "done"
    /\ Len(routes) = 3
    /\ Len(routes[2]) > Len(routes[1])
    /\ Len(routes[3]) > Len(routes[1])

\* C4: a walk that got stuck before reaching the goal is discarded, so that
\* every returned route is a walk through consecutive adjacent positions.
C4_StuckWalkDiscarded ==
    rpc = "done" => \A i \in 1 .. Len(routes) : StepsAdjacent(routes[i])

(***************************************************************************)
(* Properties of the traffic signal.                                       *)
(***************************************************************************)
\* the movement asked of can_pass in the last call
CallDx == sig_call.to[1] - sig_call.from[1]

CallDy == sig_call.to[2] - sig_call.from[2]

\* C7: can_pass(from, to) is false whenever to is not a single-hop cardinal
\* neighbour of from, that is whenever |dx| + |dy| # 1, in either phase.
C7_CanPassOnlySingleHop ==
    (sig_call.op = "can_pass" /\ Abs(CallDx) + Abs(CallDy) # 1)
        => sig_call.ret = FALSE

\* C8: can_pass is true iff the axis of the movement matches the phase: dx # 0
\* and dy = 0 passes exactly in NORTH_SOUTH, dx = 0 and dy # 0 passes exactly
\* in EAST_WEST, a diagonal or zero movement never passes.
C8_CanPassMatchesPhase ==
    sig_call.op = "can_pass" =>
        (sig_call.ret <=>
            \/ CallDx # 0 /\ CallDy = 0 /\ signal.current_phase = "ns"
            \/ CallDx = 0 /\ CallDy # 0 /\ signal.current_phase = "ew")

C8_Witness ==
    /\ sig_call.op = "can_pass"
    /\ sig_call.ret = TRUE
    /\ CallDx = 0
    /\ CallDy = 2
    /\ signal.current_phase = "ew"

\* Every step that ends with sig_call.op = "update" is a step of SignalUpdate.
\* C9: a signal starts in NORTH_SOUTH with phase_time 0; update(dt, ns, ew)
\* with ns + ew > 0 adds dt to phase_time, flips the phase and resets
\* phase_time to 0 iff the sum is at least
\* minGreen + (maxGreen - minGreen) * (demand of the current phase / (ns + ew)),
\* and otherwise keeps the phase and the sum.
C9_UpdateFlipsAtTarget ==
    /\ signal.current_phase = "ns"
    /\ signal.phase_time = 0
    /\ [][(sig_call'.op = "update" /\ sig_call'.ns + sig_call'.ew > 0) =>
            LET total   == sig_call'.ns + sig_call'.ew
                demand  == IF signal.current_phase = "ns"
                           THEN sig_call'.ns ELSE sig_call'.ew
                elapsed == signal.phase_time + sig_call'.dt
            IN  IF elapsed * total >= 15 * total + (90 - 15) * demand
                THEN /\ signal'.current_phase # signal.current_phase
                     /\ signal'.current_phase \in {"ns", "ew"}
                     /\ signal'.phase_time = 0
                     /\ sig_call'.ret = TRUE
                ELSE /\ signal'.current_phase = signal.current_phase
                     /\ signal'.phase_time = elapsed
                     /\ sig_call'.ret = FALSE
         ]_vars

C9_Witness ==
    /\ sig_call.op = "update"
    /\ sig_call.ns = 1
    /\ sig_call.ew = 2
    /\ sig_call.ret = TRUE
    /\ signal.current_phase = "ew"
    /\ signal.phase_time = 0

\* C10: an update with nsDemand = 0 and ewDemand = 0 uses the target green
\* minGreen = 15 s: the signal flips iff its accumulated phase_time has
\* reached 15 s, in either phase.
C10_ZeroDemandMinGreen ==
    [][(sig_call'.op = "update" /\ sig_call'.ns = 0 /\ sig_call'.ew = 0) =>
          LET elapsed == signal.phase_time + sig_call'.dt
          IN  /\ sig_call'.ret <=> elapsed >= 15
              /\ signal'.current_phase # signal.current_phase <=> elapsed >= 15
              /\ signal'.phase_time = IF elapsed >= 15 THEN 0 ELSE elapsed
      ]_vars

C10_Witness ==
    /\ sig_call.op = "update"
    /\ sig_call.ns = 0
    /\ sig_call.ew = 0
    /\ sig_call.dt = 1
    /\ sig_call.ret = TRUE
    /\ signal.current_phase = "ns"

(***************************************************************************)
(* Properties of the tick loop.  Within a tick only move_vehicles changes  *)
(* a vehicle, so a property of every step is a property of every tick.     *)
(***************************************************************************)
\* C5: the completed flag of a vehicle is monotone (no step of
\* update_traffic_signals, move_vehicles or collect_metrics resets it), and
\* the completed plus the non-completed vehicles are as many as were created.
C5_CompletedMonotone ==
    [][/\ \A i \in DOMAIN vehicles :
             vehicles[i].completed => vehicles'[i].completed
       /\ DOMAIN vehicles' = DOMAIN vehicles
       /\ Cardinality({i \in DOMAIN vehicles' : vehicles'[i].completed})
            + Cardinality({i \in DOMAIN vehicles' : ~vehicles'[i].completed})
            = NumVehicles
      ]_vars

C5_Witness ==
    /\ epc = "done"
    /\ \E i \in DOMAIN vehicles :
          /\ vehicles[i].completed
          /\ vehicles[i].travel_time + 1 < current_time
    /\ \E i \in DOMAIN vehicles : ~vehicles[i].completed

\* C6: in a tick current_route_index never decreases and grows by at most 1,
\* and the position after the tick is the position before it (blocked) or
\* route[old index + 1], the next hop of the route.
C6_RouteProgress ==
    [][\A i \in DOMAIN vehicles :
          LET v == vehicles[i]
              w == vehicles'[i]
          IN  /\ w.current_route_index >= v.current_route_index
              /\ w.current_route_index <= v.current_route_index + 1
              /\ \/ w.current_position = v.current_position
                 \/ /\ v.current_route_index + 2 <= Len(v.route)
                    /\ w.current_position = v.route[v.current_route_index + 2]
      ]_vars

C6_Witness ==
    \E i \in DOMAIN vehicles :
        /\ vehicles[i].total_delay > 0
        /\ vehicles[i].current_route_index = 3
        /\ vehicles[i].current_position = vehicles[i].route[4]

\* the calls of update_traffic_signals made so far in the run
UpdatesDone == step + (IF epc \in {"move", "metrics", "time"} THEN 1 ELSE 0)

\* C11: in fixed-timing mode every signal is updated against the target green
\* 15 + (90 - 15) * 0.5 = 52.5 s on every tick, whatever vehicles wait at it:
\* it flips iff its accumulated phase_time reaches 52.5 s, so with 1 s ticks
\* every phase of every signal lasts 53 ticks for the whole run.
C11_FixedTimingConstantSplit ==
    /\ [](~adaptive_signals =>
            \A pos \in DOMAIN signals :
                /\ signals[pos].phase_time = UpdatesDone % 53
                /\ signals[pos].current_phase =
                      IF (UpdatesDone \div 53) % 2 = 0 THEN "ns" ELSE "ew")
    /\ [][(~adaptive_signals /\ epc = "signals") =>
            \A pos \in DOMAIN signals :
                LET elapsed == signals[pos].phase_time + 1
                IN  IF 2 * elapsed >= 105
                    THEN /\ signals'[pos].current_phase # signals[pos].current_phase
                         /\ signals'[pos].phase_time = 0
                    ELSE /\ signals'[pos].current_phase = signals[pos].current_phase
                         /\ signals'[pos].phase_time = elapsed
         ]_vars

C11_Witness ==
    /\ ~adaptive_signals
    /\ epc = "move"
    /\ \E pos \in DOMAIN signals :
          /\ QueueAt(vehicles, pos) = 2
          /\ signals[pos].current_phase = "ns"
          /\ signals[pos].phase_time = 0
          /\ current_time > 100
    /\ \E pos \in DOMAIN signals : QueueAt(vehicles, pos) = 0

\* the classification can_pass makes of a movement, applied to the next hop
\* of vehicle v
NextHopIsNorthSouth(v) ==
    /\ v.current_route_index + 2 <= Len(v.route)
    /\ v.route[v.current_route_index + 2][1] # v.current_position[1]
    /\ v.route[v.current_route_index + 2][2] = v.current_position[2]

NextHopIsEastWest(v) ==
    /\ v.current_route_index + 2 <= Len(v.route)
    /\ v.route[v.current_route_index + 2][1] = v.current_position[1]
    /\ v.route[v.current_route_index + 2][2] # v.current_position[2]

\* C12: in adaptive mode the ns demand passed to the signal of an
\* intersection is the number of non-completed vehicles there whose next hop
\* is a north-south movement, and the ew demand the number of those whose
\* next hop is an east-west movement.  The demands of the last update are
\* read from the signal, for the vehicles that update counted.
C12_DemandsAreDirectional ==
    (adaptive_signals /\ epc = "move") =>
        \A pos \in DOMAIN signals :
            /\ signals[pos].ns_queue_length =
                  Cardinality({i \in DOMAIN vehicles :
                      /\ ~vehicles[i].completed
                      /\ vehicles[i].current_position = pos
                      /\ NextHopIsNorthSouth(vehicles[i])})
            /\ signals[pos].ew_queue_length =
                  Cardinality({i \in DOMAIN vehicles :
                      /\ ~vehicles[i].completed
                      /\ vehicles[i].current_position = pos
                      /\ NextHopIsEastWest(vehicles[i])})

\* C13: a non-completed vehicle that is not at its destination has a next hop;
\* advanced with the signal at its position letting it pass, it takes the
\* next hop, its index grows by 1, its distance by the hop length (500 m),
\* its speed becomes 500 / dt and its delay is unchanged; advanced with the
\* signal against it, its position and index are unchanged, its speed becomes
\* 0 and its delay grows by dt.  Its travel_time grows by dt in both cases.
C13_AdvanceMovesOrWaits ==
    [][epc = "move" =>
        \A i \in DOMAIN vehicles :
            LET v == vehicles[i]
                w == vehicles'[i]
            IN  (~v.completed /\ v.current_position # v.destination) =>
                  /\ v.current_route_index + 2 <= Len(v.route)
                  /\ IF CanPass(signals[v.current_position], v.current_position,
                                v.route[v.current_route_index + 2])
                     THEN /\ w.current_position = v.route[v.current_route_index + 2]
                          /\ w.current_route_index = v.current_route_index + 1
                          /\ w.distance_traveled = v.distance_traveled + 500
                          /\ w.speed_mps = 500
                          /\ w.total_delay = v.total_delay
                     ELSE /\ w.current_position = v.current_position
                          /\ w.current_route_index = v.current_route_index
                          /\ w.distance_traveled = v.distance_traveled
                          /\ w.speed_mps = 0
                          /\ w.total_delay = v.total_delay + 1
                  /\ w.travel_time = v.travel_time + 1
                  /\ ~w.completed
      ]_vars

C13_Witness ==
    /\ epc = "metrics"
    /\ \E i \in DOMAIN vehicles :
          /\ vehicles[i].speed_mps = 500
          /\ vehicles[i].total_delay > 0
    /\ \E j \in DOMAIN vehicles :
          /\ ~vehicles[j].completed
          /\ vehicles[j].current_position # vehicles[j].destination
          /\ vehicles[j].speed_mps = 0
          /\ vehicles[j].distance_traveled > 0

\* C14: the cumulative distance of a vehicle is the number of hops it has
\* taken times the intersection spacing of the network (1000 m); the vehicle
\* routed from (0,0) to (4,4) along a shortest path of the 5 x 5 grid has
\* distance_traveled = 8 * 1000 m when it completes.
C14_DistanceIsHopsTimesSpacing ==
    \A i \in DOMAIN vehicles :
        /\ vehicles[i].distance_traveled =
              vehicles[i].current_route_index * NetworkSpacing
        /\ (/\ vehicles[i].completed
            /\ vehicles[i].route = ShortestPath(5, <<0, 0>>, <<4, 4>>))
              => vehicles[i].distance_traveled = 8 * 1000

\* C15: the single vehicle from (0,0) to (4,4) under adaptive signals is
\* completed when the run reaches its horizon, and its travel_time is then at
\* least 8 ticks (8 hops).
C15_ScenarioVehicleCompletes ==
    epc = "done" =>
        /\ vehicles[1].completed
        /\ vehicles[1].travel_time >= 8 * TimeStep

Occurrences(done, vehicle_id) ==
    Cardinality({k \in 1 .. Len(done) : done[k] = vehicle_id})

\* C17: advancing a completed vehicle is a no-op: no step changes its
\* current_position, current_route_index, speed_mps, travel_time,
\* total_delay, distance_traveled or emissions_g (nor any other attribute),
\* and it is not appended to completed_vehicles again.
C17_CompletedIsNoOp ==
    [][\A i \in DOMAIN vehicles :
          vehicles[i].completed =>
              /\ vehicles'[i] = vehicles[i]
              /\ Occurrences(completed_vehicles', vehicles[i].id)
                    = Occurrences(completed_vehicles, vehicles[i].id)
              /\ Occurrences(completed_vehicles, vehicles[i].id) = 1
      ]_vars

C17_Witness ==
    /\ epc = "metrics"
    /\ Len(completed_vehicles) = 2
    /\ completed_vehicles[1] # completed_vehicles[2]
    /\ \E i \in DOMAIN vehicles :
          /\ vehicles[i].completed
          /\ vehicles[i].travel_time + 20 < current_time
    /\ \E j \in DOMAIN vehicles :
          /\ vehicles[j].completed
          /\ vehicles[j].travel_time = current_time

\* C18: on every tick in which a non-completed vehicle is advanced, whether
\* it moves, is blocked or is found at its destination, its emissions grow:
\* by 2.31 g * dt when its speed after the step is below 1 m/s, and by
\* 0.15 g * speed * dt otherwise (231 and 15 hundredths of a gram).
C18_EmissionsGrowEveryTick ==
    [][epc = "move" =>
        \A i \in DOMAIN vehicles :
            ~vehicles[i].completed =>
                vehicles'[i].emissions_g =
                    vehicles[i].emissions_g
                      + (IF vehicles'[i].speed_mps < 1
                         THEN 231
                         ELSE 15 * vehicles'[i].speed_mps)
      ]_vars

\* C19: with no federate (TrafficSimulation never sets one, also when
\* use_helics is true) simulated time grows by exactly time_step = 1 on every
\* tick, the loop ends, completed vehicles or not, after exactly
\* sim_duration / time_step ticks, and the queue_lengths series of every
\* intersection then has that many entries.
C19_FreeRunsToHorizon ==
    /\ [](federate = None)
    /\ [][epc = "time" =>
            /\ current_time' = current_time + 1
            /\ step' = step + 1
         ]_vars
    /\ [](epc = "done" =>
            /\ step = sim_duration
            /\ current_time = sim_duration
            /\ \A pos \in DOMAIN queue_lengths :
                  Len(queue_lengths[pos]) = sim_duration)
    /\ [](epc # "done" => current_time < sim_duration)
    /\ <>(epc = "done")

C19_Witness ==
    /\ epc = "done"
    /\ use_helics
    /\ step = ScenarioHorizon
    /\ \A i \in DOMAIN vehicles : ~vehicles[i].completed
    /\ Len(queue_lengths[<<4, 4>>]) = ScenarioHorizon

\* C20: a time request that raises during a tick does not abort the run: the
\* engine falls back to local ticks (current_time += time_step) and goes on
\* to the horizon.  gpc = "aborted" is the run ended by the exception.
C20_RequestFailureRecovered ==
    /\ gpc # "aborted"
    /\ gpc = "done" => grid_current_time >= GridSimDuration

\* C21: no vehicle moves between two positions that are not von Neumann
\* adjacent: whatever route initialize_vehicles assigned, a move made by
\* move_vehicles changes exactly one coordinate by exactly 1; a move to a
\* non-adjacent position is never performed.
C21_MovesAreAdjacent ==
    [][epc = "move" =>
        \A i \in DOMAIN vehicles :
            vehicles'[i].current_position # vehicles[i].current_position =>
                Adjacent(vehicles[i].current_position,
                         vehicles'[i].current_position)
      ]_vars

\* C22: when no path exists between start and end (the end lies outside the
\* grid), shortest_path does not return a route: a call that returned had an
\* end inside the grid, which every start reaches.
C22_NoPathIsReported ==
    rpc = "path_returned" => end \in Positions(grid_size)

\* C23: every tick runs in the order signals, vehicles, metrics, time.  The
\* first step of a tick updates each of the 25 signals once (its phase_time
\* grows by the time step, or the phase flips and phase_time restarts) from
\* the vehicles as the previous tick left them, and moves no vehicle; the
\* second advances the vehicles under the phases just updated and changes no
\* signal; the third appends one snapshot; the fourth advances the clock.
\* Vehicles change in the second step only.
C23_TickOrder ==
    /\ [][epc = "signals" =>
            /\ epc' = "move"
            /\ vehicles' = vehicles
            /\ completed_vehicles' = completed_vehicles
            /\ DOMAIN signals' = Positions(5)
            /\ Cardinality(DOMAIN signals') = 25
            /\ \A pos \in DOMAIN signals :
                  /\ \/ /\ signals'[pos].current_phase = signals[pos].current_phase
                        /\ signals'[pos].phase_time = signals[pos].phase_time + 1
                     \/ /\ signals'[pos].current_phase # signals[pos].current_phase
                        /\ signals'[pos].phase_time = 0
                  /\ adaptive_signals =>
                        signals'[pos].ew_queue_length =
                            Cardinality({i \in DOMAIN vehicles :
                                /\ ~vehicles[i].completed
                                /\ vehicles[i].current_position = pos})
         ]_vars
    /\ [][epc = "move" =>
            /\ epc' = "metrics"
            /\ signals' = signals
            /\ total_emissions' = total_emissions
            /\ current_time' = current_time
            /\ \A i \in DOMAIN vehicles :
                  LET v == vehicles[i]
                  IN  (~v.completed /\ v.current_position # v.destination) =>
                        (vehicles'[i].current_position # v.current_position
                           <=> CanPass(signals[v.current_position],
                                       v.current_position,
                                       v.route[v.current_route_index + 2]))
         ]_vars
    /\ [][epc = "metrics" =>
            /\ epc' = "time"
            /\ signals' = signals
            /\ vehicles' = vehicles
            /\ current_time' = current_time
            /\ Len(total_emissions') = Len(total_emissions) + 1
         ]_vars
    /\ [][epc = "time" =>
            /\ epc' \in {"signals", "done"}
            /\ signals' = signals
            /\ vehicles' = vehicles
            /\ total_emissions' = total_emissions
            /\ current_time' = current_time + 1
         ]_vars
    /\ [][vehicles' # vehicles => epc = "move" /\ epc' = "metrics"]_vars
    /\ [](Len(total_emissions) = step + (IF epc = "time" THEN 1 ELSE 0))

C23_Witness ==
    /\ epc = "time"
    /\ step > 50
    /\ \E pos \in DOMAIN signals :
          /\ signals[pos].current_phase = "ew"
          /\ signals[pos].phase_time = 0
    /\ \E pos \in DOMAIN signals : signals[pos].phase_time > 5
    /\ \E i \in DOMAIN vehicles :
          /\ vehicles[i].speed_mps = 500
          /\ vehicles[i].travel_time = step + 1
    /\ Len(total_emissions) = step + 1

\* the orders in which the n vehicles of the list can be processed
Orders(n) == {f \in [1 .. n -> 1 .. n] : \A a, b \in 1 .. n : a # b => f[a] # f[b]}

\* the loop of move_vehicles run over the vehicles in the order given, from
\* its k-th iteration on
RECURSIVE MoveInOrder(_, _, _, _, _)
MoveInOrder(st, order, k, sigs, dt) ==
    IF k > Len(order) THEN st
    ELSE MoveInOrder(MoveVehicleAt(st, order[k], sigs, dt), order, k + 1, sigs, dt)

\* C24: the outcome of move_vehicles does not depend on the order in which
\* the vehicles are processed: processed in any permutation of the list,
\* every vehicle ends the tick with the same attributes as the tick of the
\* run gave it (ascending order), and the same vehicles are in
\* completed_vehicles.
C24_OrderIndependent ==
    [][epc = "move" =>
        \A order \in Orders(Len(vehicles)) :
            LET st == MoveInOrder([vehicles |-> vehicles,
                                   completed_vehicles |-> completed_vehicles],
                                  order, 1, signals, 1)
            IN  /\ st.vehicles = vehicles'
                /\ Elems(st.completed_vehicles) = Elems(completed_vehicles')
      ]_vars

C24_Witness ==
    /\ epc = "metrics"
    /\ Len(vehicles) >= 2
    /\ vehicles[1].speed_mps = 500
    /\ vehicles[2].speed_mps = 500
    /\ vehicles[1].travel_time = step + 1
    /\ vehicles[2].travel_time = step + 1
    /\ vehicles[1].current_position = vehicles[2].current_position
    /\ vehicles[1].distance_traveled > 500

\* the loop of move_vehicles after its first k iterations
RECURSIVE MovePrefix(_, _, _, _)
MovePrefix(st, k, sigs, dt) ==
    IF k = 0 THEN st
    ELSE MoveVehicleAt(MovePrefix(st, k - 1, sigs, dt), k, sigs, dt)

\* C25: advancing one vehicle changes that vehicle's own state and at most
\* appends it to completed_vehicles: every other vehicle keeps all its
\* attributes, the vehicle keeps its id, origin, destination and route, and
\* over the whole of move_vehicles no signal (phase, phase_time) and nothing
\* of the network changes.
C25_AdvanceTouchesOneVehicle ==
    [][epc = "move" =>
        LET st0 == [vehicles |-> vehicles,
                    completed_vehicles |-> completed_vehicles]
        IN  /\ \A i \in DOMAIN vehicles :
                  LET before == MovePrefix(st0, i - 1, signals, 1)
                      after  == MoveVehicleAt(before, i, signals, 1)
                  IN  /\ \A j \in DOMAIN vehicles :
                            j # i => after.vehicles[j] = before.vehicles[j]
                      /\ after.vehicles[i].id = before.vehicles[i].id
                      /\ after.vehicles[i].origin = before.vehicles[i].origin
                      /\ after.vehicles[i].destination = before.vehicles[i].destination
                      /\ after.vehicles[i].route = before.vehicles[i].route
                      /\ after.completed_vehicles \in
                            {before.completed_vehicles,
                             Append(before.completed_vehicles, before.vehicles[i].id)}
            /\ MovePrefix(st0, Len(vehicles), signals, 1).vehicles = vehicles'
            /\ MovePrefix(st0, Len(vehicles), signals, 1).completed_vehicles
                  = completed_vehicles'
            /\ signals' = signals
            /\ \A i \in DOMAIN vehicles :
                  /\ vehicles'[i].id = vehicles[i].id
                  /\ vehicles'[i].origin = vehicles[i].origin
                  /\ vehicles'[i].destination = vehicles[i].destination
                  /\ vehicles'[i].route = vehicles[i].route
            /\ sim_duration' = sim_duration
            /\ adaptive_signals' = adaptive_signals
      ]_vars

C25_Witness ==
    /\ epc = "metrics"
    /\ \E i, j \in DOMAIN vehicles :
          /\ i # j
          /\ ~vehicles[i].completed
          /\ vehicles[i].speed_mps = 0
          /\ vehicles[i].travel_time = step + 1
          /\ vehicles[i].total_delay > vehicles[j].total_delay
          /\ vehicles[j].current_position = vehicles[j].destination
          /\ ~vehicles[j].completed
          /\ vehicles[j].travel_time = step + 1

\* the calls of move_vehicles made so far in the run
MovesDone == step + (IF epc \in {"metrics", "time"} THEN 1 ELSE 0)

\* C26: a vehicle is marked completed on the first tick it starts at its
\* destination, the tick after the one that moved it there: a non-completed
\* vehicle at its destination has moved there in the last movement, and the
\* next movement marks it completed and appends it to completed_vehicles
\* without moving it or adding to its travel_time.  A vehicle is not marked
\* completed at a position other than its destination unless its route index
\* is at the last element of its route.
C26_CompletedAtDestination ==
    /\ [](\A i \in DOMAIN vehicles :
            (~vehicles[i].completed
               /\ vehicles[i].current_position = vehicles[i].destination) =>
                  /\ vehicles[i].speed_mps = 500
                  /\ vehicles[i].travel_time = MovesDone
                  /\ epc # "move" \/ step > 0)
    /\ [][epc = "move" =>
            \A i \in DOMAIN vehicles :
                LET v == vehicles[i]
                    w == vehicles'[i]
                IN  /\ (~v.completed /\ v.current_position = v.destination) =>
                          /\ w.completed
                          /\ w.current_position = v.current_position
                          /\ w.current_route_index = v.current_route_index
                          /\ w.travel_time = v.travel_time
                          /\ \E k \in 1 .. Len(completed_vehicles') :
                                /\ k > Len(completed_vehicles)
                                /\ completed_vehicles'[k] = v.id
                    /\ (~v.completed /\ w.completed) =>
                          \/ v.current_position = v.destination
                          \/ v.current_route_index = Len(v.route) - 1
         ]_vars

C26_Witness ==
    /\ epc = "metrics"
    /\ step > 50
    /\ \E i \in DOMAIN vehicles :
          /\ vehicles[i].completed
          /\ vehicles[i].travel_time = step
          /\ vehicles[i].speed_mps = 500
          /\ completed_vehicles[Len(completed_vehicles)] = vehicles[i].id
    /\ \E j \in DOMAIN vehicles :
          /\ ~vehicles[j].completed
          /\ vehicles[j].current_position # vehicles[j].destination

\* C27: a vehicle whose route index is at the last element of its route
\* while it is not at its destination is marked completed by its next
\* advance; so a vehicle that was given a dead-end alternative route (the
\* route of a walk that got stuck, whose last hop is not a step of the grid)
\* is completed when the run ends, not left non-completed.
C27_DeadEndRouteEndsCompleted ==
    /\ [][epc = "move" =>
            \A i \in DOMAIN vehicles :
                (/\ ~vehicles[i].completed
                 /\ vehicles[i].current_position # vehicles[i].destination
                 /\ vehicles[i].current_route_index = Len(vehicles[i].route) - 1)
                    => vehicles'[i].completed
         ]_vars
    /\ [](epc = "done" =>
            \A i \in DOMAIN vehicles :
                ~StepsAdjacent(vehicles[i].route) => vehicles[i].completed)

\* the sum of f over the set S
RECURSIVE SumOver(_, _)
SumOver(S, f) ==
    IF S = {} THEN 0
    ELSE LET x == CHOOSE y \in S : TRUE
         IN  f[x] + SumOver(S \ {x}, f)

\* C28: the snapshot of a tick records, for every intersection, the number
\* of non-completed vehicles standing there after the movement of that
\* tick; the recorded queue lengths of all intersections and the number of
\* completed vehicles add up to the number of vehicles.
C28_QueueSnapshot ==
    epc = "time" =>
        LET last == [pos \in DOMAIN queue_lengths |->
                        queue_lengths[pos][Len(queue_lengths[pos])]]
        IN  /\ DOMAIN queue_lengths = Positions(5)
            /\ \A pos \in DOMAIN queue_lengths :
                  /\ Len(queue_lengths[pos]) = step + 1
                  /\ last[pos] =
                        Cardinality({i \in DOMAIN vehicles :
                            /\ ~vehicles[i].completed
                            /\ vehicles[i].current_position = pos})
            /\ SumOver(DOMAIN queue_lengths, last)
                 + Cardinality({i \in DOMAIN vehicles : vehicles[i].completed})
                  = Len(vehicles)

C28_Witness ==
    /\ epc = "time"
    /\ step > 50
    /\ Cardinality({i \in DOMAIN vehicles : vehicles[i].completed}) = 1
    /\ \E pos \in DOMAIN queue_lengths :
          /\ queue_lengths[pos][step + 1] = 1
          /\ queue_lengths[pos][step] = 2

\* C29: the speed of a vehicle never exceeds its max_speed_mps (13.9 m/s,
\* the 50 km/h urban limit) after any tick of 1 s.
C29_SpeedWithinLimit ==
    \A i \in DOMAIN vehicles : 10 * vehicles[i].speed_mps <= MaxSpeedTenths

\* C30: every vehicle stands on the element of its route its index points
\* at; so no vehicle enters move_vehicles non-completed, away from its
\* destination and with its index at the last element (the route-exhaustion
\* branch is not taken), and the vehicles with completed = true are those
\* listed in completed_vehicles, each of them once.
C30_PositionFollowsIndex ==
    /\ \A i \in DOMAIN vehicles :
          /\ vehicles[i].current_route_index + 1 \in DOMAIN vehicles[i].route
          /\ vehicles[i].current_position
                = vehicles[i].route[vehicles[i].current_route_index + 1]
          /\ ~(/\ ~vehicles[i].completed
               /\ vehicles[i].current_position # vehicles[i].destination
               /\ vehicles[i].current_route_index >= Len(vehicles[i].route) - 1)
          /\ vehicles[i].completed
                <=> Occurrences(completed_vehicles, vehicles[i].id) = 1
    /\ \A k \in DOMAIN completed_vehicles :
          \E i \in DOMAIN vehicles :
              vehicles[i].id = completed_vehicles[k] /\ vehicles[i].completed
    /\ Len(completed_vehicles)
          = Cardinality({i \in DOMAIN vehicles : vehicles[i].completed})

C30_Witness ==
    /\ epc = "metrics"
    /\ Len(completed_vehicles) = 2
    /\ \E i \in DOMAIN vehicles :
          /\ vehicles[i].completed
          /\ ~StepsAdjacent(vehicles[i].route)
          /\ vehicles[i].current_route_index = Len(vehicles[i].route) - 1
          /\ vehicles[i].travel_time = step
    /\ \E j \in DOMAIN vehicles :
          /\ vehicles[j].completed
          /\ vehicles[j].travel_time < step

\* C31: for every vehicle at every tick travel_time = total_delay
\* + time_step * current_route_index and distance_traveled = hop length
\* (500 m) * current_route_index; travel_time, total_delay,
\* distance_traveled and emissions_g never decrease.
C31_CountersConsistent ==
    /\ [](\A i \in DOMAIN vehicles :
            /\ vehicles[i].travel_time
                  = vehicles[i].total_delay + 1 * vehicles[i].current_route_index
            /\ vehicles[i].distance_traveled
                  = 500 * vehicles[i].current_route_index)
    /\ [][\A i \in DOMAIN vehicles :
            /\ vehicles'[i].travel_time >= vehicles[i].travel_time
            /\ vehicles'[i].total_delay >= vehicles[i].total_delay
            /\ vehicles'[i].distance_traveled >= vehicles[i].distance_traveled
            /\ vehicles'[i].emissions_g >= vehicles[i].emissions_g
         ]_vars

C31_Witness ==
    /\ epc = "metrics"
    /\ \E i \in DOMAIN vehicles :
          /\ vehicles[i].current_route_index = 3
          /\ vehicles[i].total_delay > 50
          /\ vehicles[i].travel_time = step + 1
          /\ vehicles[i].speed_mps = 500
    /\ \E j \in DOMAIN vehicles :
          /\ vehicles[j].current_route_index = 1
          /\ vehicles[j].speed_mps = 0
          /\ ~vehicles[j].completed

\* C32: whatever the demands (adaptive or fixed mode), every phase of a
\* signal lasts at least min_green_time (15 s) and, with updates of 1 s, at
\* most max_green_time (90 s) of accumulated time: after every update
\* phase_time is 0 (just flipped) or below 90, no update flips the signal
\* before the accumulated phase_time reaches 15, and a flip made by an
\* update of 1 s comes at 90 at the latest; so the signal flips again and
\* again as long as it is updated.
C32_PhaseWithinGreenBounds ==
    /\ [](signal.phase_time = 0 \/ signal.phase_time < 90)
    /\ [][sig_call'.op = "update" =>
            /\ sig_call'.ret <=> signal'.current_phase # signal.current_phase
            /\ sig_call'.ret =>
                  /\ signal.phase_time + sig_call'.dt >= 15
                  /\ signal'.phase_time = 0
                  /\ sig_call'.dt = 1 => signal.phase_time + 1 <= 90
            /\ ~sig_call'.ret =>
                  signal'.phase_time = signal.phase_time + sig_call'.dt
         ]_vars
    /\ []<>(signal.current_phase = "ns")
    /\ []<>(signal.current_phase = "ew")

C32_Witness ==
    /\ sig_call.op = "update"
    /\ sig_call.dt = 1
    /\ sig_call.ns = 0
    /\ signal.current_phase = "ew"
    /\ signal.phase_time = 89

\* C33: no vehicle starves at a signal.  A non-completed vehicle whose next
\* hop changes one coordinate only is blocked for at most max_green_time / dt
\* = 90 consecutive ticks, in adaptive and in fixed mode, whatever the other
\* vehicles do: after the movement of a tick its route index is greater than
\* it was 91 movements before (the run up to that tick is replayed).
C33_NoStarvation ==
    (epc = "metrics" /\ step + 1 >= 91) =>
        LET past == RunTicks(RunStart(vehicles), adaptive_signals, step + 1 - 91)
        IN  \A i \in DOMAIN vehicles :
                (/\ ~vehicles[i].completed
                 /\ NextHopIsNorthSouth(vehicles[i]) \/ NextHopIsEastWest(vehicles[i]))
                    => vehicles[i].current_route_index
                          > past.vehicles[i].current_route_index

C33_Witness ==
    /\ epc = "metrics"
    /\ step + 1 >= 91
    /\ \E i \in DOMAIN vehicles :
          /\ ~vehicles[i].completed
          /\ vehicles[i].speed_mps = 500
          /\ vehicles[i].travel_time = step + 1
          /\ vehicles[i].current_route_index = 3
          /\ vehicles[i].total_delay > 90
    /\ \E j \in DOMAIN vehicles :
          /\ ~vehicles[j].completed
          /\ vehicles[j].speed_mps = 0
          /\ NextHopIsNorthSouth(vehicles[j]) \/ NextHopIsEastWest(vehicles[j])

\* C34: every vehicle created by initialize_vehicles becomes completed if the
\* run is long enough: whatever route it was given, the vehicle is not left
\* non-completed, blocked at an intersection on every tick from some tick on.
C34_EveryVehicleCompletes ==
    <>(\A i \in DOMAIN vehicles : vehicles[i].completed)

\* the vehicle of index i leaves its intersection in this step
Leaves(i) == vehicles'[i].current_position # vehicles[i].current_position

\* C35: movements at an intersection exclude each other: the vehicles that
\* leave one intersection in one tick all move along the same axis (all
\* change x, or all change y); no two leave it along conflicting axes.
C35_OneAxisPerIntersection ==
    [][epc = "move" =>
        \A i, j \in DOMAIN vehicles :
            (/\ Leaves(i)
             /\ Leaves(j)
             /\ vehicles[i].current_position = vehicles[j].current_position) =>
                /\ (vehicles'[i].current_position[1] # vehicles[i].current_position[1])
                     <=> (vehicles'[j].current_position[1] # vehicles[j].current_position[1])
                /\ (vehicles'[i].current_position[2] # vehicles[i].current_position[2])
                     <=> (vehicles'[j].current_position[2] # vehicles[j].current_position[2])
                /\ (vehicles'[i].current_position[1] = vehicles[i].current_position[1])
                     # (vehicles'[i].current_position[2] = vehicles[i].current_position[2])
      ]_vars

C35_Witness ==
    /\ epc = "metrics"
    /\ \E i, j \in DOMAIN vehicles :
          /\ vehicles[i].origin = vehicles[j].origin
          /\ vehicles[i].current_route_index = 1
          /\ vehicles[i].speed_mps = 500
          /\ vehicles[i].travel_time = step + 1
          /\ vehicles[i].current_position[2] = vehicles[i].origin[2]
          /\ vehicles[j].current_route_index = 0
          /\ vehicles[j].speed_mps = 0
          /\ vehicles[j].route[2][1] = vehicles[j].origin[1]

\* C36: in adaptive mode the demands passed to a signal on every tick
\* satisfy ns_demand <= ew_demand: ew_demand is the number of non-completed
\* vehicles at the intersection, ns_demand the number of those with route
\* remaining.  So with a positive total demand the target green of
\* NORTH_SOUTH is at most 52.5 s and that of EAST_WEST at least 52.5 s.
C36_NsDemandAtMostEw ==
    [][(adaptive_signals /\ epc = "signals") =>
        \A pos \in DOMAIN signals :
            LET ns == signals'[pos].ns_queue_length
                ew == signals'[pos].ew_queue_length
            IN  /\ ew = Cardinality({i \in DOMAIN vehicles :
                          /\ ~vehicles[i].completed
                          /\ vehicles[i].current_position = pos})
                /\ ns = Cardinality({i \in DOMAIN vehicles :
                          /\ ~vehicles[i].completed
                          /\ vehicles[i].current_position = pos
                          /\ vehicles[i].current_route_index + 1
                                < Len(vehicles[i].route)})
                /\ ns <= ew
                /\ ns + ew > 0 =>
                      /\ 2 * TargetGreen("ns", ns, ew)[1]
                            <= 105 * TargetGreen("ns", ns, ew)[2]
                      /\ 2 * TargetGreen("ew", ns, ew)[1]
                            >= 105 * TargetGreen("ew", ns, ew)[2]
      ]_vars

C36_Witness ==
    /\ adaptive_signals
    /\ epc = "move"
    /\ \E pos \in DOMAIN signals :
          /\ signals[pos].ns_queue_length = 1
          /\ signals[pos].ew_queue_length = 2
    /\ \E pos \in DOMAIN signals :
          /\ signals[pos].ns_queue_length = 0
          /\ signals[pos].ew_queue_length = 0

\* C37: in fixed-timing mode the signals run in lock-step: at every tick the
\* 25 intersections have the same current_phase and the same phase_time, so
\* the whole grid is green for the same axis at the same time, for the whole
\* run.
C37_FixedSignalsInLockStep ==
    (~adaptive_signals /\ epc # "idle") =>
        /\ Cardinality(DOMAIN signals) = 25
        /\ \A p, q \in DOMAIN signals :
              /\ signals[p].current_phase = signals[q].current_phase
              /\ signals[p].phase_time = signals[q].phase_time

C37_Witness ==
    /\ ~adaptive_signals
    /\ epc = "move"
    /\ step > 60
    /\ \A p \in DOMAIN signals :
          /\ signals[p].current_phase = "ew"
          /\ signals[p].phase_time = 10
    /\ \E p \in DOMAIN signals :
          Cardinality({i \in DOMAIN vehicles :
              ~vehicles[i].completed /\ vehicles[i].current_position = p}) = 2
    /\ \E p \in DOMAIN signals :
          \A i \in DOMAIN vehicles : vehicles[i].current_position # p

\* C38: in the EV charging simulation no vehicle receives charge before its
\* arrival_time: on every tick with current_time < vehicle.arrival_time the
\* vehicle is not connected, gets no positive power allocation, and has
\* charged nothing (its soc and energy_charged_kwh are as at the start).
C38_NoChargeBeforeArrival ==
    \A i \in DOMAIN ev_vehicles :
        (/\ evpc \in {"allocate", "apply", "raised", "done"}
         /\ ev_current_time < ev_vehicles[i].arrival_time)
            => /\ ~ev_vehicles[i].is_connected
               /\ ev_vehicles[i].energy_charged_kwh = 0
               /\ (/\ evpc = "apply"
                   /\ ev_vehicles[i].id \in DOMAIN ev_allocation)
                      => ev_allocation[ev_vehicles[i].id] <= 0

\* the sum of the powers of an allocation
RECURSIVE SumAllocation(_, _)
SumAllocation(alloc, ids) ==
    IF ids = {} THEN 0
    ELSE LET ev_id == CHOOSE x \in ids : TRUE
         IN  alloc[ev_id] + SumAllocation(alloc, ids \ {ev_id})

\* min(station.max_power_kw, vehicle.max_charge_rate_kw) of a connected vehicle
RateCap(ev_id) ==
    IF StationOf(ev_stations, ev_id).max_power_kw < MaxChargeRate
    THEN StationOf(ev_stations, ev_id).max_power_kw ELSE MaxChargeRate

====
